---------------------------- MODULE Spec2Model ----------------------------
(***************************************************************************)
(* Model of the basilisk-escrow program (hardened variant,                 *)
(* programs/basilisk-escrow/src): the ProgramConfig singleton, the Job     *)
(* records, the per-job escrow token account and the users' token          *)
(* accounts, with one action per instruction.  Every instruction is an     *)
(* operator from a ledger (config, jobs, escrow, bal) and the call's       *)
(* inputs to an error code and the ledger the handler has written so far;  *)
(* the runtime commits that ledger only when the instruction returns Ok.   *)
(***************************************************************************)
EXTENDS Integers, Sequences, FiniteSets, TLC

VARIABLES config, jobs, escrow, bal, now, last, calc

vars == <<config, jobs, escrow, bal, now, last, calc>>

-----------------------------------------------------------------------------
(* Program constants                                                       *)

MAX_JOB_ID_LEN == 36
MAX_DESCRIPTION_LEN == 200
MAX_DELIVERABLE_LEN == 500
SECONDS_PER_DAY == 86400
MIN_RATING == 1
MAX_RATING == 5
MAX_PERCENTAGE == 100
\* the runtime's limit on the length in bytes of one seed of a derived address
MAX_SEED_LEN == 32

(* Bounds of the model                                                     *)

\* number of clock advances (of one day each) in a run
MaxTicks == 1
\* width in bits of the model's amount type (u64 in the program); the
\* widened domain of the split (u128 in the program) has twice this width
AmountBits == 8

\* the largest value of the signed timestamp type (i64 in the program), at the
\* width of TLC's integers
I64_MAX == 2147483647

U64_MAX == 2 ^ AmountBits - 1
U128_MAX == 2 ^ (2 * AmountBits) - 1

-----------------------------------------------------------------------------
(* Identities, mints, token accounts, strings                              *)

\* Pubkey::default(): the all-zero key, for which nobody can sign
DefaultKey == "default"
Keys == {"k1", "k2", "k3"}
\* the keys that are made admin, and the keys that are made arbitrator
Admins == {"k1", "k3"}
Arbitrators == {"k2", "k3"}
Mints == {"m1", "m2"}

\* the users' token accounts; owner and mint of a token account are fixed
TokenAccts == {"t1", "t2", "t3", "x2"}
\* the escrow token accounts of the jobs j1 and j2, as a caller can name them
\* in the place of a user's token account; their owner is the job's escrow
\* authority, a derived address for which nobody can sign
EscrowTokens == {"e1", "e2"}
EscrowTokenJob(t) == IF t = "e1" THEN "j1" ELSE "j2"
EscrowAuthority == "escrow_authority"
TokenOwner(t) ==
  CASE t = "t1" -> "k1" [] t = "t3" -> "k3" [] t \in EscrowTokens -> EscrowAuthority
    [] OTHER -> "k2"
TokenMint(t) == IF t = "x2" THEN "m2" ELSE "m1"
\* the token account of mint m1 that a key owns
TokenOf(k) == CASE k = "k1" -> "t1" [] k = "k3" -> "t3" [] OTHER -> "t2"
\* the tokens k1 holds at the start; the other accounts start empty
InitBal == 3
InitBalances == [t \in TokenAccts |-> IF t = "t1" THEN InitBal ELSE 0]

\* A string is a sequence of chunks, each a run of bytes of known length;
\* format! concatenates and String::len counts the bytes.
SEP == <<" | ">>
REJECTED == <<" | REJECTED: ">>
LongUrlFits == <<"url-that-just-fits">>
LongUrl == <<"url-one-byte-too-long">>
LongDescription == <<"description-one-byte-too-long">>
LongDescriptionFits == <<"description-that-just-fits">>
ChunkLen(c) ==
  CASE c = " | " -> 3
    [] c = " | REJECTED: " -> 13
    [] c = "url-that-just-fits" -> MAX_DELIVERABLE_LEN - 4
    [] c = "url-one-byte-too-long" -> MAX_DELIVERABLE_LEN - 3
    [] c = "description-one-byte-too-long" -> MAX_DESCRIPTION_LEN + 1
    [] c = "description-that-just-fits" -> MAX_DESCRIPTION_LEN
    [] OTHER -> 1
RECURSIVE ByteLen(_)
ByteLen(s) == IF s = <<>> THEN 0 ELSE ChunkLen(Head(s)) + ByteLen(Tail(s))

\* job identifiers with their length in bytes: a short identifier, an
\* identifier of exactly the program's limit (the length of a UUID in text
\* form), and one a byte over that limit
JobIds == {"j1"}
LimitIds == {"jU"}
LongIds == {"jL"}
AllJobIds == JobIds \cup LimitIds \cup LongIds
JobIdLen(j) ==
  IF j \in LongIds THEN MAX_JOB_ID_LEN + 1
  ELSE IF j \in LimitIds THEN MAX_JOB_ID_LEN ELSE 2

\* inputs of the calls
JobAmounts == {0, InitBal, InitBal + 1}
Descriptions == {<<"d">>, LongDescription}
DeadlineDays == {0, 1}
Urls == {<<"u">>, LongUrlFits, LongUrl}
NotesSet == {<<"n">>}
Reasons == {<<"r">>}
Ratings == {0, 1, 5, 6}
Percentages == {0, 50, 100, 101}
\* the token accounts the mint's freeze authority has frozen when a call runs
Frozens == {{}, {"t1"}}

-----------------------------------------------------------------------------
(* Records                                                                 *)

NoConfig == [exists |-> FALSE, admin |-> DefaultKey, arbitrator |-> DefaultKey]

NoJob ==
  [exists |-> FALSE, job_id |-> "", requester |-> DefaultKey,
   agent |-> DefaultKey,
   amount |-> 0, description |-> <<>>, status |-> "Open", created_at |-> 0,
   deadline |-> 0, deliverable |-> <<>>, disputed |-> FALSE, rating |-> 0,
   mint |-> DefaultKey]

NoAcct == [exists |-> FALSE, mint |-> DefaultKey, bal |-> 0]

Ledger == [config |-> config, jobs |-> jobs, escrow |-> escrow, bal |-> bal]

Res(e, st) == [err |-> e, st |-> st]

\* Option<T>
None == "none"

-----------------------------------------------------------------------------
(* The runtime: an instruction that returns an error leaves no trace        *)

\* a runtime that keeps what a failed instruction wrote
CommitNoRollback(pre, r) == r.st

\* the ledger after the instruction: what it wrote if it returned Ok, the
\* ledger before it otherwise
Commit(pre, r) == IF r.err = "Ok" THEN r.st ELSE pre

-----------------------------------------------------------------------------
(* The token program's transfer, as the instructions invoke it              *)

\* token::transfer from a user's token account into the escrow account of j
Deposit(st, from, j, amt, frozen) ==
  IF from \in frozen THEN Res("AccountFrozen", st)
  ELSE IF st.bal[from] < amt THEN Res("InsufficientFunds", st)
  ELSE IF TokenMint(from) # st.escrow[j].mint THEN Res("MintMismatch", st)
  ELSE Res("Ok", [st EXCEPT !.bal[from] = @ - amt, !.escrow[j].bal = @ + amt])

\* the mint of a token account, and the ledger with amt added to its balance
MintOf(st, t) ==
  IF t \in EscrowTokens THEN st.escrow[EscrowTokenJob(t)].mint ELSE TokenMint(t)
Credit(st, t, amt) ==
  IF t \in EscrowTokens
  THEN [st EXCEPT !.escrow[EscrowTokenJob(t)].bal = @ + amt]
  ELSE [st EXCEPT !.bal[t] = @ + amt]

\* token::transfer out of the escrow account of j, signed by the escrow
\* authority derived from the job identifier
Payout(st, j, to, amt, frozen) ==
  IF to \in frozen THEN Res("AccountFrozen", st)
  ELSE IF st.escrow[j].bal < amt THEN Res("InsufficientFunds", st)
  ELSE IF MintOf(st, to) # st.escrow[j].mint THEN Res("MintMismatch", st)
  ELSE Res("Ok", Credit([st EXCEPT !.escrow[j].bal = @ - amt], to, amt))

-----------------------------------------------------------------------------
(* Checked arithmetic                                                       *)

Some(v) == [ok |-> TRUE, val |-> v]
Nothing == [ok |-> FALSE, val |-> 0]

\* i64 addition that wraps around instead of failing
CheckedAddI64Wrapping(a, b) ==
  IF a > I64_MAX - b
  THEN Some(((a - I64_MAX) - 1) + ((b - I64_MAX) - 1))
  ELSE Some(a + b)

\* i64::checked_add for non-negative operands
CheckedAddI64(a, b) == IF a > I64_MAX - b THEN Nothing ELSE Some(a + b)

\* i64::checked_mul for non-negative operands
CheckedMulI64(a, b) ==
  IF a # 0 /\ b > I64_MAX \div a THEN Nothing ELSE Some(a * b)

\* the split of resolve_dispute with the product taken in the amount's own
\* width instead of the widened one
SplitAmountsNarrow(amount, pct) ==
  IF amount * pct > U64_MAX
  THEN [err |-> "Overflow", agent_amount |-> 0, requester_amount |-> 0]
  ELSE [err |-> "Ok", agent_amount |-> (amount * pct) \div 100,
        requester_amount |-> amount - (amount * pct) \div 100]

\* the split of resolve_dispute with the agent's share rounded to the
\* nearest unit instead of down
SplitAmountsRounded(amount, pct) ==
  LET product == amount * pct
      agent == ((product + 50) \div 100) % (U64_MAX + 1)
  IN  IF product > U128_MAX
      THEN [err |-> "Overflow", agent_amount |-> 0, requester_amount |-> 0]
      ELSE IF agent > amount
      THEN [err |-> "Overflow", agent_amount |-> agent, requester_amount |-> 0]
      ELSE [err |-> "Ok", agent_amount |-> agent,
            requester_amount |-> amount - agent]

\* the split of resolve_dispute: agent_amount in the widened domain, cast
\* back to the amount's width, requester_amount by checked subtraction
SplitAmounts(amount, pct) ==
  LET product == amount * pct
      agent == (product \div 100) % (U64_MAX + 1)
  IN  IF product > U128_MAX
      THEN [err |-> "Overflow", agent_amount |-> 0, requester_amount |-> 0]
      ELSE IF agent > amount
      THEN [err |-> "Overflow", agent_amount |-> agent, requester_amount |-> 0]
      ELSE [err |-> "Ok", agent_amount |-> agent,
            requester_amount |-> amount - agent]

-----------------------------------------------------------------------------
(* initialize                                                               *)

\* Initialize accounts with init_if_needed in place of init
InitializeAccountsIfNeeded(st) ==
  Res("Ok", [st EXCEPT !.config.exists = TRUE])

\* Initialize accounts: `init` of the config account fails when it exists
InitializeAccounts(st) ==
  IF st.config.exists THEN Res("AccountAlreadyInUse", st)
  ELSE Res("Ok", [st EXCEPT !.config.exists = TRUE])

InitializeHandler(st, admin, arbitrator) ==
  Res("Ok", [st EXCEPT !.config.admin = admin,
                       !.config.arbitrator = arbitrator])

Initialize(st, admin, arbitrator) ==
  LET a == InitializeAccounts(st)
  IN  IF a.err # "Ok" THEN a ELSE InitializeHandler(a.st, admin, arbitrator)

-----------------------------------------------------------------------------
(* update_config                                                            *)

\* UpdateConfig accounts without has_one = admin
UpdateConfigAccountsAnySigner(st, admin) ==
  IF ~st.config.exists THEN Res("AccountNotInitialized", st)
  ELSE Res("Ok", st)

UpdateConfigAccounts(st, admin) ==
  IF ~st.config.exists THEN Res("AccountNotInitialized", st)
  ELSE IF st.config.admin # admin THEN Res("Unauthorized", st)
  ELSE Res("Ok", st)

\* update_config that replaces the admin only
UpdateConfigHandlerAdminOnly(st, new_arbitrator, new_admin) ==
  LET s2 == IF new_admin # None
            THEN [st EXCEPT !.config.admin = new_admin] ELSE st
  IN  Res("Ok", s2)

UpdateConfigHandler(st, new_arbitrator, new_admin) ==
  LET s1 == IF new_arbitrator # None
            THEN [st EXCEPT !.config.arbitrator = new_arbitrator] ELSE st
      s2 == IF new_admin # None
            THEN [s1 EXCEPT !.config.admin = new_admin] ELSE s1
  IN  Res("Ok", s2)

UpdateConfig(st, admin, new_arbitrator, new_admin) ==
  LET a == UpdateConfigAccounts(st, admin)
  IN  IF a.err # "Ok" THEN a
      ELSE UpdateConfigHandler(a.st, new_arbitrator, new_admin)

-----------------------------------------------------------------------------
(* create_job                                                               *)

\* CreateJob accounts, first field: `init` of the job account at the address
\* derived from the seeds "job" and job_id; the derivation fails when job_id
\* is longer than a seed may be, and `init` fails when the account exists
CreateJobInit(st, j) ==
  IF JobIdLen(j) > MAX_SEED_LEN THEN Res("MaxSeedLengthExceeded", st)
  ELSE IF st.jobs[j].exists THEN Res("AccountAlreadyInUse", st)
  ELSE Res("Ok", [st EXCEPT !.jobs[j].exists = TRUE])

\* CreateJob accounts, the token accounts: `init` of the escrow token account
\* (of the given mint, owned by the escrow authority), then the constraints
\* on requester_token
CreateJobTokens(st, requester, j, requester_token, mint) ==
  IF st.escrow[j].exists THEN Res("AccountAlreadyInUse", st)
  ELSE LET s1 == [st EXCEPT !.escrow[j] = [exists |-> TRUE, mint |-> mint,
                                           bal |-> 0]]
       IN  IF TokenOwner(requester_token) # requester
           THEN Res("InvalidTokenOwner", s1)
           ELSE IF TokenMint(requester_token) # mint
           THEN Res("InvalidMint", s1)
           ELSE Res("Ok", s1)

\* CreateJob accounts with init_if_needed in place of init for the job
\* account and the escrow token account
CreateJobAccountsIfNeeded(st, requester, j, requester_token, mint) ==
  IF JobIdLen(j) > MAX_SEED_LEN THEN Res("MaxSeedLengthExceeded", st)
  ELSE LET s1 == [st EXCEPT !.jobs[j].exists = TRUE,
                            !.escrow[j] = IF @.exists THEN @
                                          ELSE [exists |-> TRUE,
                                                mint |-> mint, bal |-> 0]]
       IN  IF TokenOwner(requester_token) # requester
           THEN Res("InvalidTokenOwner", s1)
           ELSE IF TokenMint(requester_token) # mint
           THEN Res("InvalidMint", s1)
           ELSE Res("Ok", s1)

CreateJobAccounts(st, requester, j, requester_token, mint) ==
  LET a == CreateJobInit(st, j)
  IN  IF a.err # "Ok" THEN a
      ELSE CreateJobTokens(a.st, requester, j, requester_token, mint)

CreateJobHandler(st, requester, j, amount, description, deadline_days, requester_token, mint, frozen, clock) ==
  IF JobIdLen(j) > MAX_JOB_ID_LEN THEN Res("JobIdTooLong", st)
  ELSE IF ByteLen(description) > MAX_DESCRIPTION_LEN
  THEN Res("DescriptionTooLong", st)
  ELSE IF ~(amount > 0) THEN Res("ZeroAmount", st)
  ELSE
    LET s1 == [st EXCEPT !.jobs[j].job_id = j,
                         !.jobs[j].requester = requester,
                         !.jobs[j].agent = DefaultKey,
                         !.jobs[j].amount = amount,
                         !.jobs[j].description = description,
                         !.jobs[j].status = "Open",
                         !.jobs[j].created_at = clock]
        secs == CheckedMulI64(deadline_days, SECONDS_PER_DAY)
        dl == IF secs.ok THEN CheckedAddI64(clock, secs.val) ELSE Nothing
    IN  IF ~dl.ok THEN Res("Overflow", s1)
        ELSE
          LET s2 == [s1 EXCEPT !.jobs[j].deadline = dl.val,
                               !.jobs[j].deliverable = <<>>,
                               !.jobs[j].disputed = FALSE,
                               !.jobs[j].rating = 0,
                               !.jobs[j].mint = mint]
          IN  Deposit(s2, requester_token, j, amount, frozen)

CreateJob(st, requester, j, amount, description, deadline_days, requester_token, mint, frozen, clock) ==
  LET a == CreateJobAccounts(st, requester, j, requester_token, mint)
  IN  IF a.err # "Ok" THEN a
      ELSE CreateJobHandler(a.st, requester, j, amount, description,
                            deadline_days, requester_token, mint, frozen,
                            clock)

-----
(* accept_job                                                               *)

AcceptJobAccounts(st, j) ==
  IF ~st.jobs[j].exists THEN Res("AccountNotInitialized", st)
  ELSE Res("Ok", st)

\* accept_job without the two guards
AcceptJobHandlerUnguarded(st, agent, j) ==
  Res("Ok", [st EXCEPT !.jobs[j].agent = agent,
                       !.jobs[j].status = "InProgress"])

\* accept_job that lets another agent take over a job in progress
AcceptJobHandlerReassigns(st, agent, j) ==
  IF st.jobs[j].status \notin {"Open", "InProgress"}
  THEN Res("JobNotOpen", st)
  ELSE Res("Ok", [st EXCEPT !.jobs[j].agent = agent,
                            !.jobs[j].status = "InProgress"])

\* accept_job that records the agent and leaves the job Open
AcceptJobHandlerStaysOpen(st, agent, j) ==
  IF st.jobs[j].status # "Open" THEN Res("JobNotOpen", st)
  ELSE IF st.jobs[j].agent # DefaultKey THEN Res("JobAlreadyTaken", st)
  ELSE Res("Ok", [st EXCEPT !.jobs[j].agent = agent])

AcceptJobHandler(st, agent, j) ==
  IF st.jobs[j].status # "Open" THEN Res("JobNotOpen", st)
  ELSE IF st.jobs[j].agent # DefaultKey THEN Res("JobAlreadyTaken", st)
  ELSE Res("Ok", [st EXCEPT !.jobs[j].agent = agent,
                            !.jobs[j].status = "InProgress"])

AcceptJob(st, agent, j) ==
  LET a == AcceptJobAccounts(st, j)
  IN  IF a.err # "Ok" THEN a ELSE AcceptJobHandler(a.st, agent, j)

-----------------------------------------------------------------------------
(* submit_deliverable                                                       *)

SubmitDeliverableAccounts(st, agent, j) ==
  IF ~st.jobs[j].exists THEN Res("AccountNotInitialized", st)
  ELSE IF st.jobs[j].agent # agent THEN Res("Unauthorized", st)
  ELSE Res("Ok", st)

\* submit_deliverable without the status guard
SubmitDeliverableHandlerAnyStatus(st, j, deliverable_url, notes, clock) ==
  LET combined == deliverable_url \o SEP \o notes
  IN  IF ByteLen(combined) > MAX_DELIVERABLE_LEN
      THEN Res("DeliverableTooLong", st)
      ELSE IF ~(clock <= st.jobs[j].deadline)
      THEN Res("DeadlineExpired", st)
      ELSE Res("Ok", [st EXCEPT !.jobs[j].deliverable = combined,
                                !.jobs[j].status = "UnderReview"])

\* submit_deliverable without the deadline check
SubmitDeliverableHandlerNoDeadline(st, j, deliverable_url, notes, clock) ==
  LET combined == deliverable_url \o SEP \o notes
  IN  IF ByteLen(combined) > MAX_DELIVERABLE_LEN
      THEN Res("DeliverableTooLong", st)
      ELSE IF st.jobs[j].status # "InProgress" THEN Res("InvalidStatus", st)
      ELSE Res("Ok", [st EXCEPT !.jobs[j].deliverable = combined,
                                !.jobs[j].status = "UnderReview"])

\* submit_deliverable that stores the url alone
SubmitDeliverableHandlerUrlOnly(st, j, deliverable_url, notes, clock) ==
  LET combined == deliverable_url \o SEP \o notes
  IN  IF ByteLen(combined) > MAX_DELIVERABLE_LEN
      THEN Res("DeliverableTooLong", st)
      ELSE IF st.jobs[j].status # "InProgress" THEN Res("InvalidStatus", st)
      ELSE IF ~(clock <= st.jobs[j].deadline)
      THEN Res("DeadlineExpired", st)
      ELSE Res("Ok", [st EXCEPT !.jobs[j].deliverable = deliverable_url,
                                !.jobs[j].status = "UnderReview"])

\* submit_deliverable with the deadline compared strictly
SubmitDeliverableHandlerStrict(st, j, deliverable_url, notes, clock) ==
  LET combined == deliverable_url \o SEP \o notes
  IN  IF ByteLen(combined) > MAX_DELIVERABLE_LEN
      THEN Res("DeliverableTooLong", st)
      ELSE IF st.jobs[j].status # "InProgress" THEN Res("InvalidStatus", st)
      ELSE IF ~(clock < st.jobs[j].deadline)
      THEN Res("DeadlineExpired", st)
      ELSE Res("Ok", [st EXCEPT !.jobs[j].deliverable = combined,
                                !.jobs[j].status = "UnderReview"])

SubmitDeliverableHandler(st, j, deliverable_url, notes, clock) ==
  LET combined == deliverable_url \o SEP \o notes
  IN  IF ByteLen(combined) > MAX_DELIVERABLE_LEN
      THEN Res("DeliverableTooLong", st)
      ELSE IF st.jobs[j].status # "InProgress" THEN Res("InvalidStatus", st)
      ELSE IF ~(clock <= st.jobs[j].deadline)
      THEN Res("DeadlineExpired", st)
      ELSE Res("Ok", [st EXCEPT !.jobs[j].deliverable = combined,
                                !.jobs[j].status = "UnderReview"])

SubmitDeliverable(st, agent, j, deliverable_url, notes, clock) ==
  LET a == SubmitDeliverableAccounts(st, agent, j)
  IN  IF a.err # "Ok" THEN a
      ELSE SubmitDeliverableHandler(a.st, j, deliverable_url, notes, clock)

-----------------------------------------------------------------------------
(* approve_and_pay                                                          *)

\* ApproveAndPay accounts without has_one = requester
ApproveAndPaySignerAny(st, requester, j) ==
  IF ~st.jobs[j].exists THEN Res("AccountNotInitialized", st)
  ELSE Res("Ok", st)

\* ApproveAndPay accounts, the job and the signer: has_one = requester
ApproveAndPaySigner(st, requester, j) ==
  IF ~st.jobs[j].exists THEN Res("AccountNotInitialized", st)
  ELSE IF st.jobs[j].requester # requester THEN Res("Unauthorized", st)
  ELSE Res("Ok", st)

\* ApproveAndPay accounts without the owner constraint on agent_token
ApproveAndPayTokensAnyOwner(st, j, agent_token) ==
  IF st.escrow[j].mint # st.jobs[j].mint THEN Res("InvalidMint", st)
  ELSE IF TokenMint(agent_token) # st.jobs[j].mint THEN Res("InvalidMint", st)
  ELSE Res("Ok", st)

\* ApproveAndPay accounts, the token accounts: escrow_token, then agent_token
ApproveAndPayTokens(st, j, agent_token) ==
  IF st.escrow[j].mint # st.jobs[j].mint THEN Res("InvalidMint", st)
  ELSE IF TokenOwner(agent_token) # st.jobs[j].agent
  THEN Res("InvalidTokenOwner", st)
  ELSE IF TokenMint(agent_token) # st.jobs[j].mint THEN Res("InvalidMint", st)
  ELSE Res("Ok", st)

ApproveAndPayAccounts(st, requester, j, agent_token) ==
  LET a == ApproveAndPaySigner(st, requester, j)
  IN  IF a.err # "Ok" THEN a ELSE ApproveAndPayTokens(a.st, j, agent_token)

\* approve_and_pay that marks the job Completed without moving the funds
ApproveAndPayHandlerNoTransfer(st, j, rating, agent_token, frozen) ==
  IF st.jobs[j].status # "UnderReview" THEN Res("InvalidStatus", st)
  ELSE IF ~(rating >= MIN_RATING /\ rating <= MAX_RATING)
  THEN Res("InvalidRating", st)
  ELSE Res("Ok", [st EXCEPT !.jobs[j].status = "Completed",
                            !.jobs[j].rating = rating])

\* approve_and_pay that pays but does not record the rating
ApproveAndPayHandlerNoRating(st, j, rating, agent_token, frozen) ==
  IF st.jobs[j].status # "UnderReview" THEN Res("InvalidStatus", st)
  ELSE IF ~(rating >= MIN_RATING /\ rating <= MAX_RATING)
  THEN Res("InvalidRating", st)
  ELSE LET t == Payout(st, j, agent_token, st.jobs[j].amount, frozen)
       IN  IF t.err # "Ok" THEN t
           ELSE Res("Ok", [t.st EXCEPT !.jobs[j].status = "Completed"])

ApproveAndPayHandler(st, j, rating, agent_token, frozen) ==
  IF st.jobs[j].status # "UnderReview" THEN Res("InvalidStatus", st)
  ELSE IF ~(rating >= MIN_RATING /\ rating <= MAX_RATING)
  THEN Res("InvalidRating", st)
  ELSE LET t == Payout(st, j, agent_token, st.jobs[j].amount, frozen)
       IN  IF t.err # "Ok" THEN t
           ELSE Res("Ok", [t.st EXCEPT !.jobs[j].status = "Completed",
                                       !.jobs[j].rating = rating])

ApproveAndPay(st, requester, j, rating, agent_token, frozen) ==
  LET a == ApproveAndPayAccounts(st, requester, j, agent_token)
  IN  IF a.err # "Ok" THEN a
      ELSE ApproveAndPayHandler(a.st, j, rating, agent_token, frozen)

-----------------------------------------------------------------------------
(* reject_work                                                              *)

RejectWorkAccounts(st, requester, j) ==
  IF ~st.jobs[j].exists THEN Res("AccountNotInitialized", st)
  ELSE IF st.jobs[j].requester # requester THEN Res("Unauthorized", st)
  ELSE Res("Ok", st)

\* reject_work without the status guard
RejectWorkHandlerAnyStatus(st, j, reason) ==
  LET new_deliverable == st.jobs[j].deliverable \o REJECTED \o reason
  IN  IF ByteLen(new_deliverable) > MAX_DELIVERABLE_LEN
      THEN Res("DeliverableTooLong", st)
      ELSE Res("Ok", [st EXCEPT !.jobs[j].status = "Disputed",
                                !.jobs[j].disputed = TRUE,
                                !.jobs[j].deliverable = new_deliverable])

\* reject_work without the length check
RejectWorkHandlerUnbounded(st, j, reason) ==
  IF st.jobs[j].status # "UnderReview" THEN Res("InvalidStatus", st)
  ELSE LET new_deliverable == st.jobs[j].deliverable \o REJECTED \o reason
       IN  Res("Ok", [st EXCEPT !.jobs[j].status = "Disputed",
                                !.jobs[j].disputed = TRUE,
                                !.jobs[j].deliverable = new_deliverable])

\* reject_work that stores the rejection in place of the previous deliverable
RejectWorkHandlerReplaces(st, j, reason) ==
  IF st.jobs[j].status # "UnderReview" THEN Res("InvalidStatus", st)
  ELSE LET new_deliverable == REJECTED \o reason
       IN  IF ByteLen(new_deliverable) > MAX_DELIVERABLE_LEN
           THEN Res("DeliverableTooLong", st)
           ELSE Res("Ok", [st EXCEPT !.jobs[j].status = "Disputed",
                                     !.jobs[j].disputed = TRUE,
                                     !.jobs[j].deliverable = new_deliverable])

RejectWorkHandler(st, j, reason) ==
  IF st.jobs[j].status # "UnderReview" THEN Res("InvalidStatus", st)
  ELSE LET new_deliverable == st.jobs[j].deliverable \o REJECTED \o reason
       IN  IF ByteLen(new_deliverable) > MAX_DELIVERABLE_LEN
           THEN Res("DeliverableTooLong", st)
           ELSE Res("Ok", [st EXCEPT !.jobs[j].status = "Disputed",
                                     !.jobs[j].disputed = TRUE,
                                     !.jobs[j].deliverable = new_deliverable])

RejectWork(st, requester, j, reason) ==
  LET a == RejectWorkAccounts(st, requester, j)
  IN  IF a.err # "Ok" THEN a ELSE RejectWorkHandler(a.st, j, reason)

-----------------------------------------------------------------------------
(* cancel_job                                                               *)

\* CancelJob accounts, the job and the signer: has_one = requester
CancelJobSigner(st, requester, j) ==
  IF ~st.jobs[j].exists THEN Res("AccountNotInitialized", st)
  ELSE IF st.jobs[j].requester # requester THEN Res("Unauthorized", st)
  ELSE Res("Ok", st)

\* CancelJob accounts without the owner constraint on requester_token
CancelJobTokensAnyOwner(st, requester, j, requester_token) ==
  IF st.escrow[j].mint # st.jobs[j].mint THEN Res("InvalidMint", st)
  ELSE IF TokenMint(requester_token) # st.jobs[j].mint
  THEN Res("InvalidMint", st)
  ELSE Res("Ok", st)

\* CancelJob accounts, the token accounts: escrow_token, then requester_token
CancelJobTokens(st, requester, j, requester_token) ==
  IF st.escrow[j].mint # st.jobs[j].mint THEN Res("InvalidMint", st)
  ELSE IF TokenOwner(requester_token) # requester
  THEN Res("InvalidTokenOwner", st)
  ELSE IF TokenMint(requester_token) # st.jobs[j].mint
  THEN Res("InvalidMint", st)
  ELSE Res("Ok", st)

CancelJobAccounts(st, requester, j, requester_token) ==
  LET a == CancelJobSigner(st, requester, j)
  IN  IF a.err # "Ok" THEN a
      ELSE CancelJobTokens(a.st, requester, j, requester_token)

\* cancel_job without the status guard
CancelJobHandlerAnyStatus(st, j, requester_token, frozen) ==
  LET t == Payout(st, j, requester_token, st.jobs[j].amount, frozen)
  IN  IF t.err # "Ok" THEN t
      ELSE Res("Ok", [t.st EXCEPT !.jobs[j].status = "Cancelled"])

CancelJobHandler(st, j, requester_token, frozen) ==
  IF st.jobs[j].status # "Open" THEN Res("CannotCancel", st)
  ELSE LET t == Payout(st, j, requester_token, st.jobs[j].amount, frozen)
       IN  IF t.err # "Ok" THEN t
           ELSE Res("Ok", [t.st EXCEPT !.jobs[j].status = "Cancelled"])

CancelJob(st, requester, j, requester_token, frozen) ==
  LET a == CancelJobAccounts(st, requester, j, requester_token)
  IN  IF a.err # "Ok" THEN a
      ELSE CancelJobHandler(a.st, j, requester_token, frozen)

-----------------------------------------------------------------------------
(* resolve_dispute                                                          *)

\* ResolveDispute accounts without the constraint on the arbitrator
ResolveDisputeSignerAny(st, arbitrator, j) ==
  IF ~st.jobs[j].exists \/ ~st.config.exists
  THEN Res("AccountNotInitialized", st)
  ELSE Res("Ok", st)

\* ResolveDispute accounts that let any signer through while no config exists
ResolveDisputeSignerNoConfig(st, arbitrator, j) ==
  IF ~st.jobs[j].exists THEN Res("AccountNotInitialized", st)
  ELSE IF st.config.exists /\ arbitrator # st.config.arbitrator
  THEN Res("UnauthorizedArbitrator", st)
  ELSE Res("Ok", st)

\* ResolveDispute accounts, the job, the config and the signer:
\* arbitrator.key() == config.arbitrator
ResolveDisputeSigner(st, arbitrator, j) ==
  IF ~st.jobs[j].exists \/ ~st.config.exists
  THEN Res("AccountNotInitialized", st)
  ELSE IF arbitrator # st.config.arbitrator
  THEN Res("UnauthorizedArbitrator", st)
  ELSE Res("Ok", st)

\* ResolveDispute accounts, the token accounts: escrow_token, agent_token,
\* requester_token
ResolveDisputeTokens(st, j, agent_token, requester_token) ==
  IF st.escrow[j].mint # st.jobs[j].mint THEN Res("InvalidMint", st)
  ELSE IF TokenOwner(agent_token) # st.jobs[j].agent
  THEN Res("InvalidTokenOwner", st)
  ELSE IF TokenMint(agent_token) # st.jobs[j].mint THEN Res("InvalidMint", st)
  ELSE IF TokenOwner(requester_token) # st.jobs[j].requester
  THEN Res("InvalidTokenOwner", st)
  ELSE IF TokenMint(requester_token) # st.jobs[j].mint
  THEN Res("InvalidMint", st)
  ELSE Res("Ok", st)

ResolveDisputeAccounts(st, arbitrator, j, agent_token, requester_token) ==
  LET a == ResolveDisputeSigner(st, arbitrator, j)
  IN  IF a.err # "Ok" THEN a
      ELSE ResolveDisputeTokens(a.st, j, agent_token, requester_token)

\* resolve_dispute that leaves the disputed flag set
ResolveDisputeHandlerKeepsFlag(st, j, agent_percentage, agent_token, requester_token, frozen) ==
  IF st.jobs[j].status # "Disputed" THEN Res("NotDisputed", st)
  ELSE IF ~(agent_percentage <= MAX_PERCENTAGE)
  THEN Res("InvalidPercentage", st)
  ELSE
    LET split == SplitAmounts(st.jobs[j].amount, agent_percentage)
        t1 == IF split.agent_amount > 0
              THEN Payout(st, j, agent_token, split.agent_amount, frozen)
              ELSE Res("Ok", st)
        t2 == IF split.requester_amount > 0
              THEN Payout(t1.st, j, requester_token, split.requester_amount,
                          frozen)
              ELSE Res("Ok", t1.st)
    IN  IF split.err # "Ok" THEN Res(split.err, st)
        ELSE IF t1.err # "Ok" THEN t1
        ELSE IF t2.err # "Ok" THEN t2
        ELSE Res("Ok", [t2.st EXCEPT !.jobs[j].status = "Resolved"])

\* resolve_dispute without the check of the percentage
ResolveDisputeHandlerAnyPercentage(st, j, agent_percentage, agent_token, requester_token, frozen) ==
  IF st.jobs[j].status # "Disputed" THEN Res("NotDisputed", st)
  ELSE
    LET split == SplitAmounts(st.jobs[j].amount, agent_percentage)
        t1 == IF split.agent_amount > 0
              THEN Payout(st, j, agent_token, split.agent_amount, frozen)
              ELSE Res("Ok", st)
        t2 == IF split.requester_amount > 0
              THEN Payout(t1.st, j, requester_token, split.requester_amount,
                          frozen)
              ELSE Res("Ok", t1.st)
    IN  IF split.err # "Ok" THEN Res(split.err, st)
        ELSE IF t1.err # "Ok" THEN t1
        ELSE IF t2.err # "Ok" THEN t2
        ELSE Res("Ok", [t2.st EXCEPT !.jobs[j].status = "Resolved",
                                     !.jobs[j].disputed = FALSE])

ResolveDisputeHandler(st, j, agent_percentage, agent_token, requester_token, frozen) ==
  IF st.jobs[j].status # "Disputed" THEN Res("NotDisputed", st)
  ELSE IF ~(agent_percentage <= MAX_PERCENTAGE)
  THEN Res("InvalidPercentage", st)
  ELSE
    LET split == SplitAmounts(st.jobs[j].amount, agent_percentage)
        t1 == IF split.agent_amount > 0
              THEN Payout(st, j, agent_token, split.agent_amount, frozen)
              ELSE Res("Ok", st)
        t2 == IF split.requester_amount > 0
              THEN Payout(t1.st, j, requester_token, split.requester_amount,
                          frozen)
              ELSE Res("Ok", t1.st)
    IN  IF split.err # "Ok" THEN Res(split.err, st)
        ELSE IF t1.err # "Ok" THEN t1
        ELSE IF t2.err # "Ok" THEN t2
        ELSE Res("Ok", [t2.st EXCEPT !.jobs[j].status = "Resolved",
                                     !.jobs[j].disputed = FALSE])

ResolveDispute(st, arbitrator, j, agent_percentage, agent_token, requester_token, frozen) ==
  LET a == ResolveDisputeAccounts(st, arbitrator, j, agent_token,
                                  requester_token)
  IN  IF a.err # "Ok" THEN a
      ELSE ResolveDisputeHandler(a.st, j, agent_percentage, agent_token,
                                 requester_token, frozen)

-----
(* The state machine                                                        *)

Idle == [amount |-> 1, pct |-> 0, done |-> FALSE, err |-> "Ok",
         agent_amount |-> 0, requester_amount |-> 0]

Init ==
  /\ config = NoConfig
  /\ jobs = [j \in AllJobIds |-> NoJob]
  /\ escrow = [j \in AllJobIds |-> NoAcct]
  /\ bal = InitBalances
  /\ now = 0
  /\ last = [op |-> "none", err |-> "Ok", dirty |-> FALSE]
  /\ calc = Idle

\* one instruction runs: the runtime commits or discards what it wrote, and
\* `last` records the call, its result and whether it had written anything
Run(op, r) ==
  LET st == Commit(Ledger, r)
  IN  /\ config' = st.config
      /\ jobs' = st.jobs
      /\ escrow' = st.escrow
      /\ bal' = st.bal
      /\ last' = [op |-> op, err |-> r.err, dirty |-> r.st # Ledger]
      /\ UNCHANGED <<now, calc>>

\* Each instruction validates its accounts before its handler reads the
\* arguments: a call whose accounts are rejected ends there, whatever the
\* arguments are.

DoInitialize ==
  \E admin \in Admins :
    LET a == InitializeAccounts(Ledger)
    IN  IF a.err # "Ok" THEN Run("initialize", a)
        ELSE \E arbitrator \in Arbitrators :
               Run("initialize",
                   InitializeHandler(a.st, admin, arbitrator))

DoUpdateConfig ==
  \E admin \in Keys :
    LET a == UpdateConfigAccounts(Ledger, admin)
    IN  IF a.err # "Ok" THEN Run("update_config", a)
        ELSE \E new_arbitrator \in Arbitrators \cup {None},
                new_admin \in Admins \cup {None} :
               Run("update_config",
                   UpdateConfigHandler(a.st, new_arbitrator, new_admin))

DoCreateJob ==
  \E requester \in Keys, j \in AllJobIds :
    LET i == CreateJobInit(Ledger, j)
    IN  IF i.err # "Ok" THEN Run("create_job", i)
        ELSE \E requester_token \in TokenAccts, mint \in Mints :
          LET a == CreateJobTokens(i.st, requester, j, requester_token, mint)
          IN  IF a.err # "Ok" THEN Run("create_job", a)
              ELSE \E amount \in JobAmounts, description \in Descriptions,
                      deadline_days \in DeadlineDays, frozen \in Frozens :
                     Run("create_job",
                         CreateJobHandler(a.st, requester, j, amount,
                                          description, deadline_days,
                                          requester_token, mint, frozen, now))

DoAcceptJob ==
  \E agent \in Keys, j \in JobIds :
    LET a == AcceptJobAccounts(Ledger, j)
    IN  IF a.err # "Ok" THEN Run("accept_job", a)
        ELSE Run("accept_job", AcceptJobHandler(a.st, agent, j))

DoSubmitDeliverable ==
  \E agent \in Keys, j \in JobIds :
    LET a == SubmitDeliverableAccounts(Ledger, agent, j)
    IN  IF a.err # "Ok" THEN Run("submit_deliverable", a)
        ELSE \E url \in Urls, notes \in NotesSet :
               Run("submit_deliverable",
                   SubmitDeliverableHandler(a.st, j, url, notes, now))

DoApproveAndPay ==
  \E requester \in Keys, j \in JobIds :
    LET s == ApproveAndPaySigner(Ledger, requester, j)
    IN  IF s.err # "Ok" THEN Run("approve_and_pay", s)
        ELSE \E agent_token \in TokenAccts :
          LET a == ApproveAndPayTokens(s.st, j, agent_token)
          IN  IF a.err # "Ok" THEN Run("approve_and_pay", a)
              ELSE \E rating \in Ratings, frozen \in Frozens :
                     Run("approve_and_pay",
                         ApproveAndPayHandler(a.st, j, rating, agent_token,
                                              frozen))

DoRejectWork ==
  \E requester \in Keys, j \in JobIds :
    LET a == RejectWorkAccounts(Ledger, requester, j)
    IN  IF a.err # "Ok" THEN Run("reject_work", a)
        ELSE \E reason \in Reasons :
               Run("reject_work", RejectWorkHandler(a.st, j, reason))

DoCancelJob ==
  \E requester \in Keys, j \in JobIds :
    LET s == CancelJobSigner(Ledger, requester, j)
    IN  IF s.err # "Ok" THEN Run("cancel_job", s)
        ELSE \E requester_token \in TokenAccts :
          LET a == CancelJobTokens(s.st, requester, j, requester_token)
          IN  IF a.err # "Ok" THEN Run("cancel_job", a)
              ELSE \E frozen \in Frozens :
                     Run("cancel_job",
                         CancelJobHandler(a.st, j, requester_token, frozen))

DoResolveDispute ==
  \E arbitrator \in Keys, j \in JobIds :
    LET s == ResolveDisputeSigner(Ledger, arbitrator, j)
    IN  IF s.err # "Ok" THEN Run("resolve_dispute", s)
        ELSE \E agent_token \in TokenAccts, requester_token \in TokenAccts :
          LET a == ResolveDisputeTokens(s.st, j, agent_token, requester_token)
          IN  IF a.err # "Ok" THEN Run("resolve_dispute", a)
              ELSE \E pct \in Percentages, frozen \in Frozens :
                     Run("resolve_dispute",
                         ResolveDisputeHandler(a.st, j, pct, agent_token,
                                               requester_token, frozen))

\* the clock advances by one day
Tick ==
  /\ now < MaxTicks * SECONDS_PER_DAY
  /\ now' = now + SECONDS_PER_DAY
  /\ last' = [op |-> "tick", err |-> "Ok", dirty |-> FALSE]
  /\ UNCHANGED <<config, jobs, escrow, bal, calc>>

Next ==
  \/ DoInitialize
  \/ DoUpdateConfig
  \/ DoCreateJob
  \/ DoAcceptJob
  \/ DoSubmitDeliverable
  \/ DoApproveAndPay
  \/ DoRejectWork
  \/ DoCancelJob
  \/ DoResolveDispute
  \/ Tick

Spec == Init /\ [][Next]_vars

-----------------------------------------------------------------------------
(* Job creation at any clock, the end of the timestamp range included       *)

\* the largest value of deadline_days (u8 in the program)
U8_MAX == 255

\* the clock values at which a job is created: the start of a run, and the
\* values around the last day of the timestamp range
LateClocks ==
  {I64_MAX - 2 * SECONDS_PER_DAY, I64_MAX - SECONDS_PER_DAY - 1,
   I64_MAX - SECONDS_PER_DAY, I64_MAX - SECONDS_PER_DAY + 1,
   I64_MAX - 1, I64_MAX}
Clocks == {0, SECONDS_PER_DAY} \cup LateClocks

InitLateClock ==
  /\ config = NoConfig
  /\ jobs = [j \in AllJobIds |-> NoJob]
  /\ escrow = [j \in AllJobIds |-> NoAcct]
  /\ bal = InitBalances
  /\ now \in Clocks
  /\ last = [op |-> "none", err |-> "Ok", dirty |-> FALSE]
  /\ calc = Idle

NextLateClock ==
  \/ DoInitialize
  \/ DoCreateJob
  \/ DoCancelJob

LateClockSpec == InitLateClock /\ [][NextLateClock]_vars

-----------------------------------------------------------------------------
(* Two jobs side by side                                                    *)

\* two job identifiers that both fit a seed
PairIds == {"j1", "j2"}
\* amounts that let one token account fund two jobs
PairAmounts == {1, 2}

\* a call of one of the seven job instructions: the instruction, the job
\* account, the signer, the token accounts supplied and the numeric argument
\* (amount, rating or percentage)
CallOf(op, j, who, tok, tok2, n) ==
  [op |-> op, j |-> j, who |-> who, tok |-> tok, tok2 |-> tok2, n |-> n]

\* the program's entry points: the call runs the instruction it names
JobCall(st, c, clock) ==
  CASE c.op = "create_job" ->
         CreateJob(st, c.who, c.j, c.n, <<"d">>, 1, c.tok, "m1", {}, clock)
    [] c.op = "accept_job" -> AcceptJob(st, c.who, c.j)
    [] c.op = "submit_deliverable" ->
         SubmitDeliverable(st, c.who, c.j, <<"u">>, <<"n">>, clock)
    [] c.op = "approve_and_pay" ->
         ApproveAndPay(st, c.who, c.j, c.n, c.tok, {})
    [] c.op = "reject_work" -> RejectWork(st, c.who, c.j, <<"r">>)
    [] c.op = "cancel_job" -> CancelJob(st, c.who, c.j, c.tok, {})
    [] c.op = "resolve_dispute" ->
         ResolveDispute(st, c.who, c.j, c.n, c.tok, c.tok2, {})

\* the calls on job j that the two-job runs make: k1 requests, k2 works, k3
\* arbitrates, each with its own token account
PairCalls(j) ==
  {CallOf("create_job", j, "k1", "t1", "t1", n) : n \in PairAmounts}
  \cup {CallOf("accept_job", j, "k2", "t2", "t2", 0),
        CallOf("submit_deliverable", j, "k2", "t2", "t2", 0),
        CallOf("approve_and_pay", j, "k1", "t2", "t2", MAX_RATING),
        CallOf("reject_work", j, "k1", "t1", "t1", 0),
        CallOf("cancel_job", j, "k1", "t1", "t1", 0),
        CallOf("resolve_dispute", j, "k3", "t2", "t1", 50)}

\* the state after initialize(k3) by k1, with no job yet
InitPair ==
  /\ config = [exists |-> TRUE, admin |-> "k1", arbitrator |-> "k3"]
  /\ jobs = [j \in PairIds |-> NoJob]
  /\ escrow = [j \in PairIds |-> NoAcct]
  /\ bal = InitBalances
  /\ now = 0
  /\ last = [op |-> "none", err |-> "Ok", dirty |-> FALSE]
  /\ calc = Idle

\* one call runs on the ledger of the two jobs
PairRun(c) == Run(c.op, JobCall(Ledger, c, now))

PairCreateJob ==
  \E j \in PairIds : \E c \in PairCalls(j) :
    c.op = "create_job" /\ PairRun(c)

PairAcceptJob ==
  \E j \in PairIds : \E c \in PairCalls(j) :
    c.op = "accept_job" /\ PairRun(c)

PairSubmitDeliverable ==
  \E j \in PairIds : \E c \in PairCalls(j) :
    c.op = "submit_deliverable" /\ PairRun(c)

PairApproveAndPay ==
  \E j \in PairIds : \E c \in PairCalls(j) :
    c.op = "approve_and_pay" /\ PairRun(c)

PairRejectWork ==
  \E j \in PairIds : \E c \in PairCalls(j) :
    c.op = "reject_work" /\ PairRun(c)

PairCancelJob ==
  \E j \in PairIds : \E c \in PairCalls(j) :
    c.op = "cancel_job" /\ PairRun(c)

PairResolveDispute ==
  \E j \in PairIds : \E c \in PairCalls(j) :
    c.op = "resolve_dispute" /\ PairRun(c)

NextPair ==
  \/ PairCreateJob
  \/ PairAcceptJob
  \/ PairSubmitDeliverable
  \/ PairApproveAndPay
  \/ PairRejectWork
  \/ PairCancelJob
  \/ PairResolveDispute

PairSpec == InitPair /\ [][NextPair]_vars

-----------------------------------------------------------------------------
(* The split of resolve_dispute on its own, over the whole amount range     *)

InitSplit ==
  /\ config = NoConfig
  /\ jobs = [j \in AllJobIds |-> NoJob]
  /\ escrow = [j \in AllJobIds |-> NoAcct]
  /\ bal = InitBalances
  /\ now = 0
  /\ last = [op |-> "none", err |-> "Ok", dirty |-> FALSE]
  /\ \E amount \in 1..U64_MAX, pct \in 0..MAX_PERCENTAGE :
       calc = [Idle EXCEPT !.amount = amount, !.pct = pct]

\* the split calculation of resolve_dispute, lines 39-48
ComputeSplit ==
  /\ ~calc.done
  /\ LET split == SplitAmounts(calc.amount, calc.pct)
     IN  calc' = [calc EXCEPT !.done = TRUE, !.err = split.err,
                              !.agent_amount = split.agent_amount,
                              !.requester_amount = split.requester_amount]
  /\ UNCHANGED <<config, jobs, escrow, bal, now, last>>

NextSplit == ComputeSplit

SplitSpec == InitSplit /\ [][NextSplit]_vars

-----------------------------------------------------------------------------
(* The early variant of the program (src/lib.rs), on the same ledger        *)

\* the bytes of an early Job account after the discriminator (Job::LEN), and
\* the bytes the record takes besides the text of its three strings: a
\* 4-byte length before each string, two keys, the amount, the status, the
\* two timestamps, the flag and the rating
EARLY_JOB_LEN == 623
EARLY_JOB_FIXED == 4 + 32 + 32 + 8 + 4 + 1 + 8 + 8 + 4 + 1 + 1

\* every instruction writes the job record back into its account when it
\* ends, and fails if the record no longer fits
EarlyExit(st, j) ==
  IF EARLY_JOB_FIXED + JobIdLen(j) + ByteLen(st.jobs[j].description)
       + ByteLen(st.jobs[j].deliverable) > EARLY_JOB_LEN
  THEN Res("AccountDidNotSerialize", st)
  ELSE Res("Ok", st)

\* the escrow token account created with job j
EscrowTokenOf(j) == IF j = "j1" THEN "e1" ELSE "e2"

\* the token accounts a call names exist: an escrow token account exists once
\* its job was created, the users' token accounts always do
EarlyTokenAccounts(st, toks) ==
  IF \E t \in toks \cap EscrowTokens : ~st.escrow[EscrowTokenJob(t)].exists
  THEN Res("AccountNotInitialized", st)
  ELSE Res("Ok", st)

\* token::transfer from `from` signed by a user: the token program lets only
\* the owner of `from` move its tokens
EarlyDeposit(st, authority, from, j, amt, frozen) ==
  IF TokenOwner(from) # authority THEN Res("OwnerMismatch", st)
  ELSE Deposit(st, from, j, amt, frozen)

\* token::transfer from the supplied escrow_token signed by the escrow
\* authority of job j, which owns the escrow token account of j alone
EarlyPayout(st, j, escrow_token, to, amt, frozen) ==
  IF escrow_token # EscrowTokenOf(j) THEN Res("OwnerMismatch", st)
  ELSE Payout(st, j, to, amt, frozen)

\* CreateJob accounts: `init` of the job account and of the escrow token
\* account, whose mint is that of requester_token
EarlyCreateJobAccounts(st, j, requester_token) ==
  IF JobIdLen(j) > MAX_SEED_LEN THEN Res("MaxSeedLengthExceeded", st)
  ELSE IF st.jobs[j].exists \/ st.escrow[j].exists
  THEN Res("AccountAlreadyInUse", st)
  ELSE IF EarlyTokenAccounts(st, {requester_token}).err # "Ok"
  THEN EarlyTokenAccounts(st, {requester_token})
  ELSE Res("Ok", [st EXCEPT !.jobs[j].exists = TRUE,
                            !.escrow[j] = [exists |-> TRUE,
                                           mint |-> MintOf(st, requester_token),
                                           bal |-> 0]])

EarlyCreateJob(st, requester, j, amount, description, deadline_days, requester_token, frozen, clock) ==
  LET a == EarlyCreateJobAccounts(st, j, requester_token)
      s1 == [a.st EXCEPT !.jobs[j].job_id = j,
                         !.jobs[j].requester = requester,
                         !.jobs[j].agent = DefaultKey,
                         !.jobs[j].amount = amount,
                         !.jobs[j].description = description,
                         !.jobs[j].status = "Open",
                         !.jobs[j].created_at = clock,
                         !.jobs[j].deadline =
                            clock + deadline_days * SECONDS_PER_DAY,
                         !.jobs[j].deliverable = <<>>,
                         !.jobs[j].disputed = FALSE]
      t == EarlyDeposit(s1, requester, requester_token, j, amount, frozen)
  IN  IF a.err # "Ok" THEN a
      ELSE IF t.err # "Ok" THEN t
      ELSE EarlyExit(t.st, j)

EarlyAcceptJob(st, agent, j) ==
  IF ~st.jobs[j].exists THEN Res("AccountNotInitialized", st)
  ELSE IF st.jobs[j].status # "Open" THEN Res("JobNotOpen", st)
  ELSE IF st.jobs[j].agent # DefaultKey THEN Res("JobAlreadyTaken", st)
  ELSE EarlyExit([st EXCEPT !.jobs[j].agent = agent,
                            !.jobs[j].status = "InProgress"], j)

EarlySubmitDeliverable(st, agent, j, deliverable_url, notes) ==
  IF ~st.jobs[j].exists THEN Res("AccountNotInitialized", st)
  ELSE IF st.jobs[j].status # "InProgress" THEN Res("InvalidStatus", st)
  ELSE IF st.jobs[j].agent # agent THEN Res("Unauthorized", st)
  ELSE EarlyExit([st EXCEPT !.jobs[j].deliverable =
                              deliverable_url \o SEP \o notes,
                            !.jobs[j].status = "UnderReview"], j)

EarlyApproveAndPay(st, requester, j, rating, escrow_token, agent_token, frozen) ==
  IF ~st.jobs[j].exists THEN Res("AccountNotInitialized", st)
  ELSE IF EarlyTokenAccounts(st, {escrow_token, agent_token}).err # "Ok"
  THEN EarlyTokenAccounts(st, {escrow_token, agent_token})
  ELSE IF st.jobs[j].status # "UnderReview" THEN Res("InvalidStatus", st)
  ELSE IF st.jobs[j].requester # requester THEN Res("Unauthorized", st)
  ELSE IF ~(rating >= 1 /\ rating <= 5) THEN Res("InvalidRating", st)
  ELSE LET t == EarlyPayout(st, j, escrow_token, agent_token,
                            st.jobs[j].amount, frozen)
       IN  IF t.err # "Ok" THEN t
           ELSE EarlyExit([t.st EXCEPT !.jobs[j].status = "Completed",
                                       !.jobs[j].rating = rating], j)

\* reject_work of the early variant that changes the status and leaves the
\* disputed flag clear
EarlyRejectWorkNoFlag(st, requester, j, reason) ==
  IF ~st.jobs[j].exists THEN Res("AccountNotInitialized", st)
  ELSE IF st.jobs[j].status # "UnderReview" THEN Res("InvalidStatus", st)
  ELSE IF st.jobs[j].requester # requester THEN Res("Unauthorized", st)
  ELSE EarlyExit([st EXCEPT !.jobs[j].status = "Disputed",
                            !.jobs[j].deliverable = @ \o REJECTED \o reason],
                 j)

EarlyRejectWork(st, requester, j, reason) ==
  IF ~st.jobs[j].exists THEN Res("AccountNotInitialized", st)
  ELSE IF st.jobs[j].status # "UnderReview" THEN Res("InvalidStatus", st)
  ELSE IF st.jobs[j].requester # requester THEN Res("Unauthorized", st)
  ELSE EarlyExit([st EXCEPT !.jobs[j].status = "Disputed",
                            !.jobs[j].disputed = TRUE,
                            !.jobs[j].deliverable = @ \o REJECTED \o reason],
                 j)

EarlyCancelJob(st, requester, j, escrow_token, requester_token, frozen) ==
  IF ~st.jobs[j].exists THEN Res("AccountNotInitialized", st)
  ELSE IF EarlyTokenAccounts(st, {escrow_token, requester_token}).err # "Ok"
  THEN EarlyTokenAccounts(st, {escrow_token, requester_token})
  ELSE IF st.jobs[j].status # "Open" THEN Res("CannotCancel", st)
  ELSE IF st.jobs[j].requester # requester THEN Res("Unauthorized", st)
  ELSE LET t == EarlyPayout(st, j, escrow_token, requester_token,
                            st.jobs[j].amount, frozen)
       IN  IF t.err # "Ok" THEN t
           ELSE EarlyExit([t.st EXCEPT !.jobs[j].status = "Cancelled"], j)

\* resolve_dispute of the early variant with the hardened variant's checks of
\* who owns the destination accounts
EarlyResolveDisputeOwnersChecked(st, arbitrator, j, agent_percentage, escrow_token, agent_token, requester_token, frozen) ==
  IF ~st.jobs[j].exists THEN Res("AccountNotInitialized", st)
  ELSE IF TokenOwner(agent_token) # st.jobs[j].agent
            \/ TokenOwner(requester_token) # st.jobs[j].requester
  THEN Res("InvalidTokenOwner", st)
  ELSE IF ~st.jobs[j].disputed THEN Res("NotDisputed", st)
  ELSE Res("Ok", [st EXCEPT !.jobs[j].status = "Resolved",
                            !.jobs[j].disputed = FALSE])

EarlyResolveDispute(st, arbitrator, j, agent_percentage, escrow_token, agent_token, requester_token, frozen) ==
  IF ~st.jobs[j].exists THEN Res("AccountNotInitialized", st)
  ELSE IF EarlyTokenAccounts(st, {escrow_token, agent_token,
                                  requester_token}).err # "Ok"
  THEN EarlyTokenAccounts(st, {escrow_token, agent_token, requester_token})
  ELSE IF ~st.jobs[j].disputed THEN Res("NotDisputed", st)
  ELSE IF ~(agent_percentage <= 100) THEN Res("InvalidPercentage", st)
  ELSE
    LET agent_amount ==
          ((st.jobs[j].amount * agent_percentage) \div 100) % (U64_MAX + 1)
        requester_amount == st.jobs[j].amount - agent_amount
        t1 == IF agent_amount > 0
              THEN EarlyPayout(st, j, escrow_token, agent_token,
                               agent_amount, frozen)
              ELSE Res("Ok", st)
        t2 == IF requester_amount > 0
              THEN EarlyPayout(t1.st, j, escrow_token, requester_token,
                               requester_amount, frozen)
              ELSE Res("Ok", t1.st)
    IN  IF t1.err # "Ok" THEN t1
        ELSE IF t2.err # "Ok" THEN t2
        ELSE EarlyExit([t2.st EXCEPT !.jobs[j].status = "Resolved",
                                     !.jobs[j].disputed = FALSE], j)

\* inputs of the early variant's runs: the job j1 funded from k1's or k2's
\* account, any of the three keys signing, and payouts drawn from the escrow
\* token account of j1 or of j2 (never created) towards any token account
EarlyAmounts == {0, InitBal - 1}
EarlyDescriptions == {<<"d">>, LongDescriptionFits}
EarlyUrls == {<<"u">>, LongUrlFits}
EarlyPercentages == {0, 50, 100, 101}
EarlyDestinations == {"t1", "t2", "t3", "x2", "e1"}

InitEarly ==
  /\ config = NoConfig
  /\ jobs = [j \in PairIds |-> NoJob]
  /\ escrow = [j \in PairIds |-> NoAcct]
  /\ bal = InitBalances
  /\ now = 0
  /\ last = [op |-> "none", err |-> "Ok", dirty |-> FALSE]
  /\ calc = Idle

EarlyDoCreateJob ==
  \E requester \in Keys, j \in JobIds, amount \in EarlyAmounts,
     description \in EarlyDescriptions, requester_token \in {"t1", "t2"} :
    LET r == EarlyCreateJob(Ledger, requester, j, amount, description, 1,
                            requester_token, {}, now)
    IN  Run("create_job", r)

EarlyDoAcceptJob ==
  \E agent \in Keys, j \in JobIds :
    LET r == EarlyAcceptJob(Ledger, agent, j)
    IN  Run("accept_job", r)

EarlyDoSubmitDeliverable ==
  \E agent \in Keys, j \in JobIds, url \in EarlyUrls :
    LET r == EarlySubmitDeliverable(Ledger, agent, j, url, <<"n">>)
    IN  Run("submit_deliverable", r)

EarlyDoApproveAndPay ==
  \E requester \in Keys, j \in JobIds, rating \in Ratings,
     escrow_token \in EscrowTokens, agent_token \in EarlyDestinations :
    LET r == EarlyApproveAndPay(Ledger, requester, j, rating, escrow_token,
                                agent_token, {})
    IN  Run("approve_and_pay", r)

EarlyDoRejectWork ==
  \E requester \in Keys, j \in JobIds :
    LET r == EarlyRejectWork(Ledger, requester, j, <<"r">>)
    IN  Run("reject_work", r)

EarlyDoCancelJob ==
  \E requester \in Keys, j \in JobIds, escrow_token \in EscrowTokens,
     requester_token \in EarlyDestinations :
    LET r == EarlyCancelJob(Ledger, requester, j, escrow_token,
                            requester_token, {})
    IN  Run("cancel_job", r)

EarlyDoResolveDispute ==
  \E arbitrator \in Keys, j \in JobIds, pct \in EarlyPercentages,
     escrow_token \in EscrowTokens, agent_token \in EarlyDestinations,
     requester_token \in EarlyDestinations :
    LET r == EarlyResolveDispute(Ledger, arbitrator, j, pct, escrow_token,
                                 agent_token, requester_token, {})
    IN  Run("resolve_dispute", r)

NextEarly ==
  \/ EarlyDoCreateJob
  \/ EarlyDoAcceptJob
  \/ EarlyDoSubmitDeliverable
  \/ EarlyDoApproveAndPay
  \/ EarlyDoRejectWork
  \/ EarlyDoCancelJob
  \/ EarlyDoResolveDispute

EarlySpec == InitEarly /\ [][NextEarly]_vars

-----------------------------------------------------------------------------
(* Both variants on one sequence of calls                                   *)

\* a call with all its arguments: the instruction, the job, the signer, the
\* token accounts, the number (amount, rating or percentage) and the text
\* (description, deliverable_url or reason)
FullCall(op, j, who, tok, tok2, n, text) ==
  [op |-> op, j |-> j, who |-> who, tok |-> tok, tok2 |-> tok2, n |-> n,
   text |-> text]

\* the hardened program's entry points
HardenedCall(st, c, clock) ==
  CASE c.op = "create_job" ->
         CreateJob(st, c.who, c.j, c.n, c.text, 1, c.tok, TokenMint(c.tok),
                   {}, clock)
    [] c.op = "accept_job" -> AcceptJob(st, c.who, c.j)
    [] c.op = "submit_deliverable" ->
         SubmitDeliverable(st, c.who, c.j, c.text, <<"n">>, clock)
    [] c.op = "approve_and_pay" ->
         ApproveAndPay(st, c.who, c.j, c.n, c.tok, {})
    [] c.op = "reject_work" -> RejectWork(st, c.who, c.j, c.text)
    [] c.op = "cancel_job" -> CancelJob(st, c.who, c.j, c.tok, {})
    [] c.op = "resolve_dispute" ->
         ResolveDispute(st, c.who, c.j, c.n, c.tok, c.tok2, {})

\* the early program's entry points, given the same call: its escrow_token
\* is the job's escrow token account, the only one the hardened call can name
EarlyCall(st, c, clock) ==
  CASE c.op = "create_job" ->
         EarlyCreateJob(st, c.who, c.j, c.n, c.text, 1, c.tok, {}, clock)
    [] c.op = "accept_job" -> EarlyAcceptJob(st, c.who, c.j)
    [] c.op = "submit_deliverable" ->
         EarlySubmitDeliverable(st, c.who, c.j, c.text, <<"n">>)
    [] c.op = "approve_and_pay" ->
         EarlyApproveAndPay(st, c.who, c.j, c.n, EscrowTokenOf(c.j), c.tok,
                            {})
    [] c.op = "reject_work" -> EarlyRejectWork(st, c.who, c.j, c.text)
    [] c.op = "cancel_job" ->
         EarlyCancelJob(st, c.who, c.j, EscrowTokenOf(c.j), c.tok, {})
    [] c.op = "resolve_dispute" ->
         EarlyResolveDispute(st, c.who, c.j, c.n, EscrowTokenOf(c.j), c.tok,
                             c.tok2, {})

\* a ledger of the hardened variant as the early variant holds it: no config
\* account, and no mint field in the job
AsEarly(st) ==
  [st EXCEPT !.config = NoConfig,
             !.jobs = [j \in DOMAIN st.jobs |->
                         [st.jobs[j] EXCEPT !.mint = DefaultKey]]]

\* the calls on job j of the runs that compare the variants (they work on
\* the job j1): any key signs, with descriptions and deliverables short and
\* at the hardened limits
RefineAmounts == {0, 1, InitBal - 1}
RefineDescriptions == {<<"d">>, LongDescriptionFits}
RefineUrls == {<<"u">>, LongUrlFits}
RefineCalls(j) ==
  {FullCall("create_job", j, who, tok, tok, n, text) :
     who \in Keys, tok \in {"t1", "t2"}, n \in RefineAmounts,
     text \in RefineDescriptions}
  \cup {FullCall("accept_job", j, who, "t2", "t2", 0, <<>>) : who \in Keys}
  \cup {FullCall("submit_deliverable", j, who, "t2", "t2", 0, text) :
          who \in Keys, text \in RefineUrls}
  \cup {FullCall("approve_and_pay", j, who, tok, tok, n, <<>>) :
          who \in Keys, tok \in TokenAccts, n \in {MIN_RATING, MAX_RATING}}
  \cup {FullCall("reject_work", j, who, "t1", "t1", 0, <<"r">>) :
          who \in Keys}
  \cup {FullCall("cancel_job", j, who, tok, tok, 0, <<>>) :
          who \in Keys, tok \in TokenAccts}
  \cup {FullCall("resolve_dispute", j, who, tok, tok2, n, <<>>) :
          who \in Keys, tok \in TokenAccts, tok2 \in TokenAccts,
          n \in {0, 50, MAX_PERCENTAGE}}

\* the hardened variant runs one call
RefineRun(c) == Run(c.op, HardenedCall(Ledger, c, now))

RefineCreateJob ==
  \E j \in JobIds : \E c \in RefineCalls(j) :
    c.op = "create_job" /\ RefineRun(c)

RefineAcceptJob ==
  \E j \in JobIds : \E c \in RefineCalls(j) :
    c.op = "accept_job" /\ RefineRun(c)

RefineSubmitDeliverable ==
  \E j \in JobIds : \E c \in RefineCalls(j) :
    c.op = "submit_deliverable" /\ RefineRun(c)

RefineApproveAndPay ==
  \E j \in JobIds : \E c \in RefineCalls(j) :
    c.op = "approve_and_pay" /\ RefineRun(c)

RefineRejectWork ==
  \E j \in JobIds : \E c \in RefineCalls(j) :
    c.op = "reject_work" /\ RefineRun(c)

RefineCancelJob ==
  \E j \in JobIds : \E c \in RefineCalls(j) :
    c.op = "cancel_job" /\ RefineRun(c)

RefineResolveDispute ==
  \E j \in JobIds : \E c \in RefineCalls(j) :
    c.op = "resolve_dispute" /\ RefineRun(c)

NextRefine ==
  \/ RefineCreateJob
  \/ RefineAcceptJob
  \/ RefineSubmitDeliverable
  \/ RefineApproveAndPay
  \/ RefineRejectWork
  \/ RefineCancelJob
  \/ RefineResolveDispute

\* the hardened variant from the state after initialize, as in InitPair
RefineSpec == InitPair /\ [][NextRefine]_vars

-----------------------------------------------------------------------------
(* Properties                                                               *)

ActiveStatuses == {"Open", "InProgress", "UnderReview", "Disputed"}
TerminalStatuses == {"Completed", "Cancelled", "Resolved"}

\* C1: for every job the escrow holding's balance equals job.amount while the
\* status is Open, InProgress, UnderReview or Disputed, and is 0 once the
\* status is Completed, Cancelled or Resolved.
C1_EscrowMatchesStatus ==
  \A j \in AllJobIds :
    jobs[j].exists =>
      /\ escrow[j].exists
      /\ jobs[j].status \in ActiveStatuses \cup TerminalStatuses
      /\ jobs[j].status \in ActiveStatuses => escrow[j].bal = jobs[j].amount
      /\ jobs[j].status \in TerminalStatuses => escrow[j].bal = 0

\* a dispute has been resolved with a split: the holding is empty, the agent
\* k2 holds its share and the requester k1 holds the rest again
C1_Witness ==
  /\ jobs["j1"].status = "Resolved"
  /\ jobs["j1"].amount = 3
  /\ escrow["j1"].bal = 0
  /\ bal["t2"] = 1
  /\ bal["t1"] = InitBal - 1

\* C2: for every amount in the amount type's range and every agent_pct in
\* [0,100] the split of resolve_dispute returns no Overflow, agent_amount is
\* floor(amount * agent_pct / 100), requester_amount is amount - agent_amount
\* and the two add up to amount.
C2_SplitExact ==
  calc.done =>
    /\ calc.err = "Ok"
    /\ calc.agent_amount = (calc.amount * calc.pct) \div 100
    /\ calc.requester_amount = calc.amount - calc.agent_amount
    /\ calc.agent_amount + calc.requester_amount = calc.amount

\* the largest amount split at 99%: the product needs the widened domain
C2_Witness ==
  /\ calc.done
  /\ calc.amount = U64_MAX
  /\ calc.pct = 99
  /\ calc.err = "Ok"
  /\ calc.amount * calc.pct > U64_MAX
  /\ calc.agent_amount + calc.requester_amount = U64_MAX

\* C3: in every reachable state with a config and a job, resolve_dispute by a
\* signer other than the stored arbitrator returns UnauthorizedArbitrator
\* whatever the job's status, the token accounts and the percentage, and the
\* ledger after the call is the ledger before it.
C3_NonArbitratorRejected ==
  \A j \in JobIds, signer \in Keys :
    (config.exists /\ jobs[j].exists /\ signer # config.arbitrator) =>
      \A agent_token \in TokenAccts, requester_token \in TokenAccts :
        \* resolve_dispute as ResolveDispute runs it: a call whose accounts
        \* are rejected ends there whatever the percentage is, the others
        \* go on to the handler
        LET a == ResolveDisputeAccounts(Ledger, signer, j, agent_token,
                                        requester_token)
        IN  IF a.err # "Ok"
            THEN /\ a.err = "UnauthorizedArbitrator"
                 /\ Commit(Ledger, a) = Ledger
            ELSE \A pct \in Percentages, frozen \in Frozens :
                   LET r == ResolveDisputeHandler(a.st, j, pct, agent_token,
                                                  requester_token, frozen)
                   IN  /\ r.err = "UnauthorizedArbitrator"
                       /\ Commit(Ledger, r) = Ledger

\* a signer that is not the arbitrator has called resolve_dispute on a
\* Disputed job, and the funds are still in escrow
C3_Witness ==
  /\ last.op = "resolve_dispute"
  /\ last.err = "UnauthorizedArbitrator"
  /\ jobs["j1"].status = "Disputed"
  /\ escrow["j1"].bal = jobs["j1"].amount

\* C4: of two accept_job calls by different agents on the same Open,
\* unassigned job, in either order, the first succeeds and makes the job
\* InProgress with its caller as agent, and the second fails and changes
\* nothing.
C4_ExactlyOneAccepts ==
  \A j \in JobIds :
    (jobs[j].exists /\ jobs[j].status = "Open" /\ jobs[j].agent = DefaultKey)
    => \A first \in Keys : \A second \in Keys \ {first} :
         LET r1 == AcceptJob(Ledger, first, j)
             s1 == Commit(Ledger, r1)
             r2 == AcceptJob(s1, second, j)
             s2 == Commit(s1, r2)
         IN  /\ r1.err = "Ok"
             /\ r2.err # "Ok"
             /\ s1.jobs[j].agent = first
             /\ s1.jobs[j].status = "InProgress"
             /\ s2 = s1

\* an accept_job call has lost: the job is InProgress with the winner as agent
C4_Witness ==
  /\ last.op = "accept_job"
  /\ last.err # "Ok"
  /\ jobs["j1"].status = "InProgress"
  /\ jobs["j1"].agent \in Keys

\* C5: of two accept_job calls by different agents on the same Open,
\* unassigned job, the second fails with JobAlreadyTaken.
C5_LoserGetsJobAlreadyTaken ==
  \A j \in JobIds :
    (jobs[j].exists /\ jobs[j].status = "Open" /\ jobs[j].agent = DefaultKey)
    => \A first \in Keys : \A second \in Keys \ {first} :
         LET s1 == Commit(Ledger, AcceptJob(Ledger, first, j))
         IN  AcceptJob(s1, second, j).err = "JobAlreadyTaken"

\* the status errors of errors.rs
StatusErrors ==
  {"JobNotOpen", "JobAlreadyTaken", "InvalidStatus", "CannotCancel",
   "NotDisputed"}

\* the edges of the lifecycle with the instruction that takes each
Edges ==
  {<<"Open", "InProgress", "accept_job">>,
   <<"InProgress", "UnderReview", "submit_deliverable">>,
   <<"UnderReview", "Completed", "approve_and_pay">>,
   <<"UnderReview", "Disputed", "reject_work">>,
   <<"Disputed", "Resolved", "resolve_dispute">>,
   <<"Open", "Cancelled", "cancel_job">>}

\* every step that changes the status of an existing job takes one of the
\* edges, by the instruction of that edge
OnlyEdges ==
  [][\A j \in JobIds :
       (jobs[j].exists /\ jobs'[j].status # jobs[j].status) =>
         <<jobs[j].status, jobs'[j].status, last'.op>> \in Edges]_vars

\* what a property asks of a call's result: of its error, and of whether the
\* call passed the account constraints of its instruction
IsStatusError(e, accepted) == e \in StatusErrors
FailsOffEdge(e, accepted) == e # "Ok" /\ (accepted => e \in StatusErrors)
IsFailure(e, accepted) == e # "Ok"

\* P holds of the result of each of the six instructions called on job j in
\* the current state, over all callers and inputs
EveryAcceptResult(j, P(_, _)) ==
  \A agent \in Keys : P(AcceptJob(Ledger, agent, j).err, TRUE)

EverySubmitResult(j, P(_, _)) ==
  \A agent \in Keys, url \in Urls, notes \in NotesSet :
    P(SubmitDeliverable(Ledger, agent, j, url, notes, now).err,
      /\ SubmitDeliverableAccounts(Ledger, agent, j).err = "Ok"
      /\ ByteLen(url \o SEP \o notes) <= MAX_DELIVERABLE_LEN)

EveryApproveResult(j, P(_, _)) ==
  \A requester \in Keys, agent_token \in TokenAccts :
    LET accepted ==
          ApproveAndPayAccounts(Ledger, requester, j, agent_token).err = "Ok"
    IN  \A rating \in Ratings, frozen \in Frozens :
          P(ApproveAndPay(Ledger, requester, j, rating, agent_token,
                          frozen).err, accepted)

EveryRejectResult(j, P(_, _)) ==
  \A requester \in Keys, reason \in Reasons :
    P(RejectWork(Ledger, requester, j, reason).err,
      RejectWorkAccounts(Ledger, requester, j).err = "Ok")

EveryCancelResult(j, P(_, _)) ==
  \A requester \in Keys, requester_token \in TokenAccts :
    LET accepted ==
          CancelJobAccounts(Ledger, requester, j, requester_token).err = "Ok"
    IN  \A frozen \in Frozens :
          P(CancelJob(Ledger, requester, j, requester_token, frozen).err,
            accepted)

EveryResolveResult(j, P(_, _)) ==
  \A arbitrator \in Keys, agent_token \in TokenAccts,
     requester_token \in TokenAccts :
    LET accepted ==
          ResolveDisputeAccounts(Ledger, arbitrator, j, agent_token,
                                 requester_token).err = "Ok"
    IN  \A pct \in Percentages, frozen \in Frozens :
          P(ResolveDispute(Ledger, arbitrator, j, pct, agent_token,
                           requester_token, frozen).err, accepted)

\* P holds of the results of the calls of the instructions whose edge does
\* not start at the status of job j
EveryOffEdgeResult(j, P(_, _)) ==
  LET st == jobs[j].status
  IN  /\ st # "Open" => EveryAcceptResult(j, P) /\ EveryCancelResult(j, P)
      /\ st # "InProgress" => EverySubmitResult(j, P)
      /\ st # "UnderReview" =>
            EveryApproveResult(j, P) /\ EveryRejectResult(j, P)
      /\ st # "Disputed" => EveryResolveResult(j, P)

\* C6 as stated: the status changes only along the six edges, and each
\* instruction called on a job in another status than its edge's source
\* fails with a status error.
C6_EdgesAndStatusErrors ==
  /\ OnlyEdges
  /\ [](\A j \in JobIds : jobs[j].exists =>
          EveryOffEdgeResult(j, IsStatusError))

\* C6 as amended: the status changes only along the six edges, and each
\* instruction called on a job in another status than its edge's source
\* fails; the error is a status error whenever the call passes the
\* instruction's account constraints and, for submit_deliverable, the length
\* check that precedes the status check.
C6_EdgesAndOffEdgeFailures ==
  /\ OnlyEdges
  /\ [](\A j \in JobIds : jobs[j].exists =>
          EveryOffEdgeResult(j, FailsOffEdge))

\* the requester has called approve_and_pay with the agent's account on a
\* job that is still InProgress
C6_Witness ==
  /\ last.op = "approve_and_pay"
  /\ last.err = "InvalidStatus"
  /\ jobs["j1"].status = "InProgress"

\* every call of the seven job instructions on job j in the current state,
\* by any caller with any inputs, fails (create_job as CreateJob runs it: the
\* accounts first, then the handler)
EveryJobCallFails(j) ==
  /\ EveryAcceptResult(j, IsFailure)
  /\ EverySubmitResult(j, IsFailure)
  /\ EveryApproveResult(j, IsFailure)
  /\ EveryRejectResult(j, IsFailure)
  /\ EveryCancelResult(j, IsFailure)
  /\ EveryResolveResult(j, IsFailure)
  /\ \A requester \in Keys, requester_token \in TokenAccts, mint \in Mints :
       LET a == CreateJobAccounts(Ledger, requester, j, requester_token, mint)
       IN  \A amount \in JobAmounts, description \in Descriptions,
              deadline_days \in DeadlineDays, frozen \in Frozens :
             LET r == IF a.err # "Ok" THEN a
                      ELSE CreateJobHandler(a.st, requester, j, amount,
                                            description, deadline_days,
                                            requester_token, mint, frozen,
                                            now)
             IN  r.err # "Ok"

\* C7: once a job is Completed, Cancelled or Resolved, every operation on it
\* by any caller fails, its escrow balance is 0, and neither the job record
\* nor the escrow balance changes in any later step (so no second payout or
\* refund).
C7_TerminalIsFinal ==
  /\ [](\A j \in JobIds :
          (jobs[j].exists /\ jobs[j].status \in TerminalStatuses) =>
            /\ escrow[j].bal = 0
            /\ EveryJobCallFails(j))
  /\ [][\A j \in JobIds :
          (jobs[j].exists /\ jobs[j].status \in TerminalStatuses) =>
            /\ jobs'[j] = jobs[j]
            /\ escrow'[j] = escrow[j]]_vars

\* a second approve_and_pay has been called on a Completed job
C7_Witness ==
  /\ last.op = "approve_and_pay"
  /\ last.err # "Ok"
  /\ jobs["j1"].exists
  /\ jobs["j1"].status = "Completed"

PayoutOwners(op, j) ==
  CASE op = "approve_and_pay" -> {jobs[j].agent}
    [] op = "cancel_job" -> {jobs[j].requester}
    [] op = "resolve_dispute" -> {jobs[j].agent, jobs[j].requester}
    [] OTHER -> {}

\* every step that takes tokens out of a job's escrow credits only accounts
\* of the job's mint owned by the payee(s) of the instruction
PayoutsOnlyToParties ==
  [][\A j \in JobIds :
       (jobs[j].exists /\ escrow'[j].bal < escrow[j].bal) =>
         \A t \in TokenAccts :
           bal'[t] > bal[t] =>
             /\ TokenMint(t) = jobs[j].mint
             /\ TokenOwner(t) \in PayoutOwners(last'.op, j)]_vars

\* every call of the three paying instructions on an existing job that
\* supplies a destination of another owner or mint than the payee's fails;
\* the error is InvalidTokenOwner or InvalidMint, for every such call when
\* always is TRUE, for the calls whose signer is accepted otherwise
WrongDestinationFails(always) ==
  \A j \in JobIds : jobs[j].exists =>
    LET st == Ledger
        Right(t, owner) ==
          TokenOwner(t) = owner /\ TokenMint(t) = jobs[j].mint
        Fails(err, signed) ==
          /\ err # "Ok"
          /\ (always \/ signed) => err \in {"InvalidTokenOwner", "InvalidMint"}
    IN  \A c \in Keys :
          LET approves == ApproveAndPaySigner(st, c, j).err = "Ok"
              cancels == CancelJobSigner(st, c, j).err = "Ok"
              resolves == ResolveDisputeSigner(st, c, j).err = "Ok"
          IN  /\ \A t \in TokenAccts : ~Right(t, jobs[j].agent) =>
                   \A r \in Ratings, f \in Frozens :
                     Fails(ApproveAndPay(st, c, j, r, t, f).err, approves)
              /\ \A t \in TokenAccts : ~Right(t, jobs[j].requester) =>
                   \A f \in Frozens :
                     Fails(CancelJob(st, c, j, t, f).err, cancels)
              /\ \A t \in TokenAccts, u \in TokenAccts :
                   (~Right(t, jobs[j].agent) \/ ~Right(u, jobs[j].requester))
                   => \A p \in Percentages, f \in Frozens :
                        Fails(ResolveDispute(st, c, j, p, t, u, f).err,
                              resolves)

\* C9 as stated: escrow is paid out only to accounts of the job's mint owned
\* by the agent or the requester, and a call that supplies a destination of
\* another owner or mint fails with InvalidTokenOwner or InvalidMint.
C9_WrongDestinationErrors ==
  /\ PayoutsOnlyToParties
  /\ []WrongDestinationFails(TRUE)

\* C9 as amended: escrow is paid out only to accounts of the job's mint owned
\* by the agent or the requester, and a call that supplies a destination of
\* another owner or mint fails; the error is InvalidTokenOwner or InvalidMint
\* whenever the caller passes the signer constraint, which is checked first.
C9_PayoutsOnlyToParties ==
  /\ PayoutsOnlyToParties
  /\ []WrongDestinationFails(FALSE)

\* the requester has called approve_and_pay on a job under review with a
\* destination that is not the agent's account of the job's mint
C9_Witness ==
  /\ last.op = "approve_and_pay"
  /\ last.err \in {"InvalidTokenOwner", "InvalidMint"}
  /\ jobs["j1"].status = "UnderReview"
  /\ escrow["j1"].bal = jobs["j1"].amount

\* C10: submit_deliverable by a signer other than job.agent, and
\* approve_and_pay, reject_work and cancel_job by a signer other than
\* job.requester, fail with Unauthorized and change nothing; hence each
\* succeeds only for that party.
C10_OnlyPartySigns ==
  \A j \in JobIds : jobs[j].exists =>
    \A caller \in Keys :
      /\ caller # jobs[j].agent =>
           \A url \in Urls, notes \in NotesSet :
             LET r == SubmitDeliverable(Ledger, caller, j, url, notes, now)
             IN  r.err = "Unauthorized" /\ Commit(Ledger, r) = Ledger
      /\ caller # jobs[j].requester =>
           \* approve_and_pay and cancel_job as ApproveAndPay and CancelJob
           \* run them: a call whose accounts are rejected ends there
           \* whatever the arguments are, the others go on to the handler
           /\ \A t \in TokenAccts :
                LET a == ApproveAndPayAccounts(Ledger, caller, j, t)
                IN  IF a.err # "Ok"
                    THEN a.err = "Unauthorized" /\ Commit(Ledger, a) = Ledger
                    ELSE \A rating \in Ratings, frozen \in Frozens :
                           LET r == ApproveAndPayHandler(a.st, j, rating, t,
                                                         frozen)
                           IN  /\ r.err = "Unauthorized"
                               /\ Commit(Ledger, r) = Ledger
           /\ \A reason \in Reasons :
                LET r == RejectWork(Ledger, caller, j, reason)
                IN  r.err = "Unauthorized" /\ Commit(Ledger, r) = Ledger
           /\ \A t \in TokenAccts :
                LET a == CancelJobAccounts(Ledger, caller, j, t)
                IN  IF a.err # "Ok"
                    THEN a.err = "Unauthorized" /\ Commit(Ledger, a) = Ledger
                    ELSE \A frozen \in Frozens :
                           LET r == CancelJobHandler(a.st, j, t, frozen)
                           IN  /\ r.err = "Unauthorized"
                               /\ Commit(Ledger, r) = Ledger

\* a signer that is not the requester has called approve_and_pay on a job
\* under review
C10_Witness ==
  /\ last.op = "approve_and_pay"
  /\ last.err = "Unauthorized"
  /\ jobs["j1"].status = "UnderReview"

\* the deliverables submit_deliverable accepts by their length
FittingDeliverables ==
  {c \in Urls \X NotesSet :
     ByteLen(c[1] \o SEP \o c[2]) <= MAX_DELIVERABLE_LEN}

\* C11: submit_deliverable by the assigned agent on an InProgress job, with
\* a deliverable of admissible length, succeeds exactly when the current time
\* is at most job.deadline (the deadline itself included); after the deadline
\* it fails for every input and the job keeps its status and deliverable.
C11_SubmitUntilDeadline ==
  \A j \in JobIds :
    (jobs[j].exists /\ jobs[j].status = "InProgress") =>
      /\ \A c \in FittingDeliverables :
           LET r == SubmitDeliverable(Ledger, jobs[j].agent, j, c[1], c[2],
                                      now)
           IN  (r.err = "Ok") <=> (now <= jobs[j].deadline)
      /\ now > jobs[j].deadline =>
           \A c \in Urls \X NotesSet :
             LET r == SubmitDeliverable(Ledger, jobs[j].agent, j, c[1], c[2],
                                        now)
                 post == Commit(Ledger, r)
             IN  /\ r.err # "Ok"
                 /\ post.jobs[j].status = "InProgress"
                 /\ post.jobs[j].deliverable = jobs[j].deliverable
                 /\ post = Ledger

\* the agent has submitted after the deadline and the job is still
\* InProgress
C11_Witness ==
  /\ last.op = "submit_deliverable"
  /\ last.err = "DeadlineExpired"
  /\ jobs["j1"].status = "InProgress"
  /\ now > jobs["j1"].deadline

\* the token accounts of the job's mint that belong to owner
AccountsOf(owner, j) ==
  {t \in TokenAccts : TokenOwner(t) = owner /\ TokenMint(t) = jobs[j].mint}

\* C12: approve_and_pay by job.requester on an UnderReview job with a rating
\* from 1 to 5 and the agent's account as destination succeeds; it moves
\* exactly job.amount from the escrow account, which is left at 0, to that
\* account, sets status to Completed and rating to the argument, and changes
\* no other field of the job, no other balance and not the config.
C12_ApprovePaysAgent ==
  \A j \in JobIds :
    (jobs[j].exists /\ jobs[j].status = "UnderReview") =>
      \A rating \in MIN_RATING .. MAX_RATING :
        \A agent_token \in AccountsOf(jobs[j].agent, j) :
          LET r == ApproveAndPay(Ledger, jobs[j].requester, j, rating,
                                 agent_token, {})
              post == Commit(Ledger, r)
          IN  /\ r.err = "Ok"
              /\ post.bal = [bal EXCEPT ![agent_token] = @ + jobs[j].amount]
              /\ post.escrow =
                   [escrow EXCEPT ![j].bal = @ - jobs[j].amount]
              /\ post.escrow[j].bal = 0
              /\ post.jobs = [jobs EXCEPT ![j].status = "Completed",
                                          ![j].rating = rating]
              /\ post.config = config

\* the requester has approved with the highest rating and the agent holds
\* the amount
C12_Witness ==
  /\ last.op = "approve_and_pay"
  /\ last.err = "Ok"
  /\ jobs["j1"].status = "Completed"
  /\ jobs["j1"].rating = MAX_RATING
  /\ escrow["j1"].bal = 0
  /\ \E t \in AccountsOf(jobs["j1"].agent, "j1") : bal[t] = jobs["j1"].amount

\* C13: resolve_dispute by the stored arbitrator on a Disputed job, with a
\* percentage from 0 to 100 and the parties' accounts as destinations,
\* succeeds; it credits the agent with floor(amount * agent_pct / 100) and
\* the requester with the remainder, leaves the escrow account at 0, sets
\* status to Resolved and disputed to false, and changes nothing else.
C13_ResolveSplitsFloor ==
  \A j \in JobIds :
    (jobs[j].exists /\ jobs[j].status = "Disputed" /\ config.exists) =>
      \A agent_pct \in 0 .. MAX_PERCENTAGE :
        \A agent_token \in AccountsOf(jobs[j].agent, j) :
          \A requester_token \in AccountsOf(jobs[j].requester, j) :
            LET r == ResolveDispute(Ledger, config.arbitrator, j, agent_pct,
                                    agent_token, requester_token, {})
                post == Commit(Ledger, r)
                share == (jobs[j].amount * agent_pct) \div 100
                rest == jobs[j].amount - share
            IN  /\ r.err = "Ok"
                /\ post.bal =
                     [t \in TokenAccts |->
                        bal[t] + (IF t = agent_token THEN share ELSE 0)
                               + (IF t = requester_token THEN rest ELSE 0)]
                /\ post.escrow[j].bal = 0
                /\ post.escrow = [escrow EXCEPT ![j].bal = 0]
                /\ post.jobs = [jobs EXCEPT ![j].status = "Resolved",
                                            ![j].disputed = FALSE]
                /\ post.config = config

\* the arbitrator has resolved a dispute between two different parties with
\* a split that rounds: the agent holds the smaller share, the requester the
\* rest
C13_Witness ==
  /\ last.op = "resolve_dispute"
  /\ last.err = "Ok"
  /\ jobs["j1"].status = "Resolved"
  /\ ~jobs["j1"].disputed
  /\ jobs["j1"].agent # jobs["j1"].requester
  /\ escrow["j1"].bal = 0
  /\ \E t \in AccountsOf(jobs["j1"].agent, "j1") :
       bal[t] = jobs["j1"].amount \div 2 /\ bal[t] > 0
  /\ \E t \in AccountsOf(jobs["j1"].requester, "j1") :
       bal[t] = jobs["j1"].amount - jobs["j1"].amount \div 2

\* C14 as stated: reject_work by job.requester on an UnderReview job sets
\* status to Disputed and disputed to true, appends " | REJECTED: " and the
\* reason to the deliverable, and moves no funds.
C14_RejectAlwaysDisputes ==
  \A j \in JobIds :
    (jobs[j].exists /\ jobs[j].status = "UnderReview") =>
      \A reason \in Reasons :
        LET r == RejectWork(Ledger, jobs[j].requester, j, reason)
            post == Commit(Ledger, r)
        IN  /\ post.jobs[j].status = "Disputed"
            /\ post.jobs[j].disputed
            /\ post.jobs[j].deliverable =
                 jobs[j].deliverable \o REJECTED \o reason
            /\ post.bal = bal /\ post.escrow = escrow

\* C14 as amended: reject_work by job.requester on an UnderReview job, when
\* the previous deliverable followed by " | REJECTED: " and the reason has at
\* most 500 bytes, sets status to Disputed, disputed to true and deliverable
\* to that text, changing nothing else and moving no funds; when the text is
\* longer the call fails with DeliverableTooLong and changes nothing.
C14_RejectAppendsWithinLimit ==
  \A j \in JobIds :
    (jobs[j].exists /\ jobs[j].status = "UnderReview") =>
      \A reason \in Reasons :
        LET r == RejectWork(Ledger, jobs[j].requester, j, reason)
            post == Commit(Ledger, r)
            appended == jobs[j].deliverable \o REJECTED \o reason
        IN  IF ByteLen(appended) <= MAX_DELIVERABLE_LEN
            THEN /\ r.err = "Ok"
                 /\ post.jobs = [jobs EXCEPT ![j].status = "Disputed",
                                             ![j].disputed = TRUE,
                                             ![j].deliverable = appended]
                 /\ post.bal = bal
                 /\ post.escrow = escrow
                 /\ post.config = config
            ELSE /\ r.err = "DeliverableTooLong"
                 /\ post = Ledger

\* the requester has rejected a short deliverable: the job is Disputed and
\* its deliverable is the submission followed by the rejection
C14_Witness ==
  /\ last.op = "reject_work"
  /\ last.err = "Ok"
  /\ jobs["j1"].status = "Disputed"
  /\ jobs["j1"].disputed
  /\ jobs["j1"].deliverable = <<"u">> \o SEP \o <<"n">> \o REJECTED \o <<"r">>
  /\ escrow["j1"].bal = jobs["j1"].amount

\* the statuses of a job that an agent has accepted
AcceptedStatuses ==
  {"InProgress", "UnderReview", "Completed", "Disputed", "Resolved"}

\* cancel_job succeeds only on an Open job and only for job.requester; a
\* successful call refunds job.amount from the escrow account to an account
\* of the requester and sets status to Cancelled, changing nothing else; the
\* requester's call on an Open job with their own account succeeds
CancelOnlyOpenByRequester ==
  \A j \in JobIds : jobs[j].exists =>
    \* cancel_job as CancelJob runs it: the accounts, then the handler
    /\ \A caller \in Keys, t \in TokenAccts :
         LET a == CancelJobAccounts(Ledger, caller, j, t)
         IN  \A frozen \in Frozens :
               LET r == IF a.err # "Ok" THEN a
                        ELSE CancelJobHandler(a.st, j, t, frozen)
                   post == Commit(Ledger, r)
               IN  r.err = "Ok" =>
                     /\ jobs[j].status = "Open"
                     /\ caller = jobs[j].requester
                     /\ TokenOwner(t) = jobs[j].requester
                     /\ post.bal = [bal EXCEPT ![t] = @ + jobs[j].amount]
                     /\ post.escrow = [escrow EXCEPT ![j].bal = 0]
                     /\ escrow[j].bal = jobs[j].amount
                     /\ post.jobs = [jobs EXCEPT ![j].status = "Cancelled"]
                     /\ post.config = config
    /\ jobs[j].status = "Open" =>
         \A t \in AccountsOf(jobs[j].requester, j) :
           CancelJob(Ledger, jobs[j].requester, j, t, {}).err = "Ok"

\* C15 as stated: cancel_job succeeds only on an Open job for job.requester
\* and then refunds job.amount and sets Cancelled; on a job that an agent has
\* accepted every cancel_job fails with CannotCancel and moves no funds.
C15_CancelFailsCannotCancel ==
  /\ CancelOnlyOpenByRequester
  /\ \A j \in JobIds :
       (jobs[j].exists /\ jobs[j].status \in AcceptedStatuses) =>
         \A caller \in Keys, t \in TokenAccts, frozen \in Frozens :
           LET r == CancelJob(Ledger, caller, j, t, frozen)
           IN  r.err = "CannotCancel" /\ Commit(Ledger, r) = Ledger

\* C15 as amended: cancel_job succeeds only on an Open job for job.requester
\* and then refunds job.amount and sets Cancelled; on a job that an agent has
\* accepted every cancel_job fails and moves no funds, with CannotCancel when
\* the call passes the account constraints (the requester signs and supplies
\* an own account of the job's mint).
C15_CancelOnlyWhileOpen ==
  /\ CancelOnlyOpenByRequester
  /\ \A j \in JobIds :
       (jobs[j].exists /\ jobs[j].status \in AcceptedStatuses) =>
         /\ jobs[j].agent # DefaultKey
         \* cancel_job as CancelJob runs it: the accounts, then the handler
         /\ \A caller \in Keys, t \in TokenAccts :
              LET a == CancelJobAccounts(Ledger, caller, j, t)
              IN  \A frozen \in Frozens :
                    LET r == IF a.err # "Ok" THEN a
                             ELSE CancelJobHandler(a.st, j, t, frozen)
                    IN  /\ r.err # "Ok"
                        /\ Commit(Ledger, r) = Ledger
                        /\ a.err = "Ok" => r.err = "CannotCancel"

\* the requester has tried to cancel a job that an agent has accepted; the
\* funds are still in escrow
C15_Witness ==
  /\ last.op = "cancel_job"
  /\ last.err = "CannotCancel"
  /\ jobs["j1"].status = "InProgress"
  /\ escrow["j1"].bal = jobs["j1"].amount

\* C16: while no config exists, initialize by any caller succeeds and stores
\* admin = caller and arbitrator = argument, changing nothing else; once the
\* config exists it exists forever, every initialize by any caller fails and
\* changes nothing, so no step is a second successful initialize.
C16_InitializeOnce ==
  /\ [](\A admin \in Keys, arbitrator \in Keys :
          LET r == Initialize(Ledger, admin, arbitrator)
              post == Commit(Ledger, r)
          IN  IF config.exists
              THEN r.err # "Ok" /\ post = Ledger
              ELSE /\ r.err = "Ok"
                   /\ post = [Ledger EXCEPT
                                !.config = [exists |-> TRUE,
                                            admin |-> admin,
                                            arbitrator |-> arbitrator]])
  /\ [][/\ config.exists => config'.exists
        /\ (last'.op = "initialize" /\ last'.err = "Ok") =>
             ~config.exists /\ config'.exists]_vars

\* initialize has been called on an existing config and has failed
C16_Witness ==
  /\ last.op = "initialize"
  /\ last.err # "Ok"
  /\ config.exists
  /\ config.admin \in Keys
  /\ config.arbitrator \in Keys

\* the arguments of update_config: a key, or none
OptionalKeys == Keys \cup {None}

\* C17: update_config by a signer other than the stored admin fails with
\* Unauthorized and changes nothing; by the stored admin it succeeds,
\* replaces arbitrator and admin exactly where an argument is present and
\* changes nothing else; after the admin has been replaced by another key
\* every update_config of the previous admin fails with Unauthorized and
\* every one of the new admin succeeds.
C17_OnlyAdminUpdates ==
  config.exists =>
    \* update_config as UpdateConfig runs it: the accounts, then the handler
    \A caller \in Keys :
     LET acc == UpdateConfigAccounts(Ledger, caller)
     IN
     \A new_arbitrator \in OptionalKeys, new_admin \in OptionalKeys :
      LET r == IF acc.err # "Ok" THEN acc
               ELSE UpdateConfigHandler(acc.st, new_arbitrator, new_admin)
          post == Commit(Ledger, r)
      IN  IF caller # config.admin
          THEN r.err = "Unauthorized" /\ post = Ledger
          ELSE /\ r.err = "Ok"
               /\ post =
                    [Ledger EXCEPT
                       !.config.arbitrator =
                          IF new_arbitrator = None THEN @ ELSE new_arbitrator,
                       !.config.admin =
                          IF new_admin = None THEN @ ELSE new_admin]
               /\ (new_admin # None /\ new_admin # caller) =>
                    LET old == UpdateConfigAccounts(post, caller)
                        new == UpdateConfigAccounts(post, new_admin)
                    IN  \A a \in OptionalKeys, b \in OptionalKeys :
                          /\ (IF old.err # "Ok" THEN old
                              ELSE UpdateConfigHandler(old.st, a, b)).err
                                = "Unauthorized"
                          /\ (IF new.err # "Ok" THEN new
                              ELSE UpdateConfigHandler(new.st, a, b)).err
                                = "Ok"

\* a signer that is not the stored admin has called update_config
C17_Witness ==
  /\ last.op = "update_config"
  /\ last.err = "Unauthorized"
  /\ config.exists
  /\ config.admin = "k3"
  /\ config.arbitrator = "k3"

\* the descriptions at and around the limit
AllDescriptions == Descriptions \cup {LongDescriptionFits}

\* the errors by which create_job rejects its job_id, description or amount
CreateJobInputErrors ==
  {"JobIdTooLong", "DescriptionTooLong", "ZeroAmount",
   "MaxSeedLengthExceeded"}

\* C18: create_job (by a requester with an own funding account of the mint)
\* fails, creating no job and moving no funds, with JobIdTooLong when job_id
\* is longer than 36 bytes, with DescriptionTooLong when description is
\* longer than 200 bytes and with ZeroAmount when amount is 0; with job_id
\* of at most 36 bytes (36 included), description of at most 200 bytes (200
\* included) and amount >= 1 the call is not rejected for these inputs.
C18_CreateJobValidation ==
  \A j \in AllJobIds : ~jobs[j].exists =>
    \A requester \in Keys, amount \in JobAmounts,
       description \in AllDescriptions, deadline_days \in DeadlineDays,
       mint \in Mints, frozen \in Frozens :
      \A requester_token \in
           {t \in TokenAccts :
              TokenOwner(t) = requester /\ TokenMint(t) = mint} :
        LET r == CreateJob(Ledger, requester, j, amount, description,
                           deadline_days, requester_token, mint, frozen, now)
            post == Commit(Ledger, r)
        IN  /\ JobIdLen(j) > MAX_JOB_ID_LEN =>
                 r.err = "JobIdTooLong" /\ post = Ledger
            /\ (JobIdLen(j) <= MAX_JOB_ID_LEN
                /\ ByteLen(description) > MAX_DESCRIPTION_LEN) =>
                 r.err = "DescriptionTooLong" /\ post = Ledger
            /\ (JobIdLen(j) <= MAX_JOB_ID_LEN
                /\ ByteLen(description) <= MAX_DESCRIPTION_LEN
                /\ amount = 0) =>
                 r.err = "ZeroAmount" /\ post = Ledger
            /\ (JobIdLen(j) <= MAX_JOB_ID_LEN
                /\ ByteLen(description) <= MAX_DESCRIPTION_LEN
                /\ amount >= 1) =>
                 r.err \notin CreateJobInputErrors

\* the job record create_job writes
CreatedJob(j, requester, amount, description, deadline_days, mint, clock) ==
  [exists |-> TRUE, job_id |-> j, requester |-> requester,
   agent |-> DefaultKey, amount |-> amount, description |-> description, status |-> "Open",
   created_at |-> clock,
   deadline |-> clock + deadline_days * SECONDS_PER_DAY,
   deliverable |-> <<>>, disputed |-> FALSE, rating |-> 0, mint |-> mint]

\* C19: a create_job that succeeds leaves a job with the given job_id,
\* status Open, requester the caller, agent unset, the given amount and description, created_at the
\* clock, deadline = created_at + deadline_days * 86400 within the timestamp
\* range, empty deliverable, disputed false and rating 0, and moves exactly
\* amount from the requester's funding account into the job's new escrow
\* account, changing nothing else; when the deadline sum exceeds the
\* timestamp range the call fails (with Overflow if nothing else is wrong
\* with it) and changes nothing; a call with valid inputs and sufficient
\* funds whose deadline is within the range succeeds.
C19_CreateJobEffect ==
  \A j \in JobIds : ~jobs[j].exists =>
    \A requester \in Keys, amount \in JobAmounts,
       description \in Descriptions, deadline_days \in {0, 1, U8_MAX},
       requester_token \in TokenAccts, mint \in Mints, frozen \in Frozens :
      LET r == CreateJob(Ledger, requester, j, amount, description,
                         deadline_days, requester_token, mint, frozen, now)
          post == Commit(Ledger, r)
          overflows == deadline_days * SECONDS_PER_DAY > I64_MAX - now
          valid == /\ TokenOwner(requester_token) = requester
                   /\ TokenMint(requester_token) = mint
                   /\ ByteLen(description) <= MAX_DESCRIPTION_LEN
                   /\ amount > 0
      IN  /\ r.err = "Ok" =>
               /\ ~overflows
               /\ post.jobs =
                    [jobs EXCEPT ![j] =
                       CreatedJob(j, requester, amount, description,
                                  deadline_days, mint, now)]
               /\ TokenOwner(requester_token) = requester
               /\ post.bal = [bal EXCEPT ![requester_token] = @ - amount]
               /\ post.escrow =
                    [escrow EXCEPT ![j] = [exists |-> TRUE, mint |-> mint,
                                           bal |-> amount]]
               /\ post.config = config
          /\ overflows =>
               /\ r.err # "Ok"
               /\ post = Ledger
               /\ valid => r.err = "Overflow"
          /\ (valid /\ ~overflows /\ amount <= bal[requester_token]
              /\ frozen = {}) => r.err = "Ok"

\* create_job has failed with Overflow, on the last day of the timestamp
\* range, after the handler had written the first fields of the job
C19_Witness ==
  /\ last.op = "create_job"
  /\ last.err = "Overflow"
  /\ last.dirty
  /\ now > I64_MAX - SECONDS_PER_DAY
  /\ ~jobs["j1"].exists

\* C20: in every step, an existing job keeps existing and keeps its job_id,
\* requester and amount; its agent changes only from unset to a key, and
\* only in a successful accept_job; an accept_job that succeeds sets agent to
\* its caller, and succeeds only while agent is unset.
C20_IdentityFieldsFixed ==
  /\ [][\A j \in JobIds : jobs[j].exists =>
          /\ jobs'[j].exists
          /\ jobs'[j].job_id = jobs[j].job_id
          /\ jobs'[j].requester = jobs[j].requester
          /\ jobs'[j].amount = jobs[j].amount
          /\ jobs'[j].agent # jobs[j].agent =>
               /\ jobs[j].agent = DefaultKey
               /\ jobs'[j].agent \in Keys
               /\ last'.op = "accept_job"
               /\ last'.err = "Ok"]_vars
  /\ [](\A j \in JobIds : jobs[j].exists =>
          /\ jobs[j].job_id = j
          /\ \A agent \in Keys :
               LET r == AcceptJob(Ledger, agent, j)
               IN  r.err = "Ok" =>
                     /\ jobs[j].agent = DefaultKey
                     /\ r.st.jobs[j].agent = agent)

\* a second accept_job has been called on a job that has its agent, and has
\* failed
C20_Witness ==
  /\ last.op = "accept_job"
  /\ last.err # "Ok"
  /\ jobs["j1"].exists
  /\ jobs["j1"].agent \in Keys
  /\ jobs["j1"].status = "InProgress"


\* the calls on job j that any signer can make with token accounts from
\* toks: those of the six instructions that take no config account, and those
\* of resolve_dispute
LifecycleCalls(j, toks) ==
  {CallOf("create_job", j, who, tok, tok, n) :
     who \in Keys, tok \in toks, n \in PairAmounts}
  \cup {CallOf(op, j, who, "t1", "t1", 0) :
          op \in {"accept_job", "submit_deliverable", "reject_work"},
          who \in Keys}
  \cup {CallOf("approve_and_pay", j, who, tok, tok, MAX_RATING) :
          who \in Keys, tok \in toks}
  \cup {CallOf("cancel_job", j, who, tok, tok, 0) :
          who \in Keys, tok \in toks}
ResolveCalls(j, toks) ==
  {CallOf("resolve_dispute", j, who, tok, tok2, n) :
     who \in Keys, tok \in toks, tok2 \in toks,
     n \in {0, 50, MAX_PERCENTAGE}}
CallsWith(j, toks) == LifecycleCalls(j, toks) \cup ResolveCalls(j, toks)

\* the calls on job j that any signer can make with any token account, the
\* escrow token accounts of the two jobs included
AllTokens == TokenAccts \cup EscrowTokens
FrameCalls(j) == CallsWith(j, AllTokens)

\* no call on a job changes the record or the escrow holding of the other job
OtherJobUntouched ==
  \A a \in PairIds : \A b \in PairIds \ {a} : \A c \in FrameCalls(a) :
    LET s == Commit(Ledger, JobCall(Ledger, c, now))
    IN  s.jobs[b] = jobs[b] /\ s.escrow[b] = escrow[b]

\* the calls on job j whose order against a call on the other job is compared
OrderCalls(j) ==
  {CallOf("create_job", j, who, TokenOf(who), "t1", n) :
     who \in {"k1", "k2"}, n \in PairAmounts}
  \cup {CallOf(op, j, who, "t1", "t1", 0) :
          op \in {"accept_job", "submit_deliverable"}, who \in {"k2", "k3"}}
  \cup {CallOf("reject_work", j, who, "t1", "t1", 0) : who \in {"k1", "k2"}}
  \cup {CallOf("approve_and_pay", j, who, tok, tok, MAX_RATING) :
          who \in {"k1", "k2"}, tok \in {"t1", "t2", "t3"}}
  \cup {CallOf("cancel_job", j, who, TokenOf(who), "t1", 0) :
          who \in {"k1", "k2"}}
  \cup {CallOf("resolve_dispute", j, who, tok, tok2, 50) :
          who \in {"k2", "k3"}, tok \in {"t2", "t3"}, tok2 \in {"t1", "t2"}}

\* the ledger after call c, then call d
After(st, c, d) ==
  LET s == Commit(st, JobCall(st, c, now))
  IN  Commit(s, JobCall(s, d, now))

\* call c is a create_job, and call d changes the balance of the token
\* account that funds it
FundedAcross(c, d) ==
  /\ c.op = "create_job"
  /\ Commit(Ledger, JobCall(Ledger, d, now)).bal[c.tok] # bal[c.tok]

\* C21 as stated: any operation on job A, successful or failed, leaves the
\* record and the escrow holding of every other job B unchanged, and two
\* operations on A and B reach the same state for both jobs in either order.
C21_JobsIndependent ==
  /\ OtherJobUntouched
  /\ \A c \in OrderCalls("j1"), d \in OrderCalls("j2") :
       LET cd == After(Ledger, c, d)
           dc == After(Ledger, d, c)
       IN  cd.jobs = dc.jobs /\ cd.escrow = dc.escrow

\* C21 as amended: any operation on job A, successful or failed, leaves the
\* record and the escrow holding of every other job B unchanged, and two
\* operations on A and B reach the same state for both jobs in either order
\* unless one of them is a create_job and the other changes the balance of the
\* token account that funds it: the users' token accounts are shared by the
\* jobs.
C21_JobsIndependentButForFunding ==
  /\ OtherJobUntouched
  /\ \A c \in OrderCalls("j1"), d \in OrderCalls("j2") :
       (~FundedAcross(c, d) /\ ~FundedAcross(d, c)) =>
         LET cd == After(Ledger, c, d)
             dc == After(Ledger, d, c)
         IN  cd.jobs = dc.jobs /\ cd.escrow = dc.escrow

\* job j1 has been paid out while job j2 is in dispute with its funds in
\* escrow
C21_Witness ==
  /\ last.op = "approve_and_pay"
  /\ last.err = "Ok"
  /\ jobs["j1"].status = "Completed"
  /\ escrow["j1"].bal = 0
  /\ jobs["j2"].status = "Disputed"
  /\ escrow["j2"].bal = jobs["j2"].amount


\* job j is InProgress and its deadline has passed
Expired(j) ==
  jobs[j].exists /\ jobs[j].status = "InProgress" /\ now > jobs[j].deadline

\* C22: passing the deadline does not by itself change a job; the clock never
\* goes backwards, and a job that is InProgress when its deadline passes stays
\* InProgress with its escrow holding equal to job.amount under every
\* subsequent operation by any caller: every call on it fails.
C22_ExpiredStaysInProgress ==
  /\ [][now' >= now
        /\ (now' # now => UNCHANGED <<config, jobs, escrow, bal>>)]_vars
  /\ [](\A j \in JobIds : Expired(j) =>
          /\ escrow[j].bal = jobs[j].amount
          /\ EveryJobCallFails(j))
  /\ [][\A j \in JobIds : Expired(j) =>
          /\ jobs'[j] = jobs[j]
          /\ escrow'[j] = escrow[j]]_vars

\* the agent has called submit_deliverable a day after the deadline of a job
\* created with deadline_days = 0
C22_Witness ==
  /\ last.op = "submit_deliverable"
  /\ last.err = "DeadlineExpired"
  /\ jobs["j1"].status = "InProgress"
  /\ now = jobs["j1"].deadline + SECONDS_PER_DAY
  /\ escrow["j1"].bal = jobs["j1"].amount


\* C23: after every successful submit_deliverable(url, notes) the job's
\* deliverable is exactly url followed by " | " and notes and the status is
\* UnderReview; the stored deliverable is empty whenever submit_deliverable
\* can succeed, so what the call stores is also what an append would give.
C23_SubmitStoresUrlAndNotes ==
  \A j \in JobIds : jobs[j].exists =>
    /\ jobs[j].status \in {"Open", "InProgress"} => jobs[j].deliverable = <<>>
    /\ \A agent \in Keys, url \in Urls, notes \in NotesSet :
         LET r == SubmitDeliverable(Ledger, agent, j, url, notes, now)
             s == Commit(Ledger, r)
         IN  r.err = "Ok" =>
               /\ jobs[j].deliverable = <<>>
               /\ s.jobs[j].deliverable = url \o SEP \o notes
               /\ s.jobs[j].deliverable = jobs[j].deliverable \o url \o SEP \o notes
               /\ ByteLen(s.jobs[j].deliverable) = ByteLen(url) + 3 + ByteLen(notes)
               /\ s.jobs[j].status = "UnderReview"
               /\ s = [Ledger EXCEPT !.jobs[j].deliverable = url \o SEP \o notes,
                                     !.jobs[j].status = "UnderReview"]

\* the agent has submitted the url "u" with the notes "n"
C23_Witness ==
  /\ last.op = "submit_deliverable"
  /\ last.err = "Ok"
  /\ jobs["j1"].status = "UnderReview"
  /\ jobs["j1"].deliverable = <<"u", " | ", "n">>


\* C24: resolve_dispute authorizes against the arbitrator stored at the
\* moment of the call: after the admin has replaced arbitrator A by B with
\* update_config, every resolve_dispute by A fails and B can resolve, also
\* for a job that became Disputed while A was the arbitrator.
C24_StoredArbitratorDecides ==
  \A j \in JobIds :
    (config.exists /\ jobs[j].exists /\ jobs[j].status = "Disputed") =>
      \A B \in Keys \ {config.arbitrator}, new_admin \in OptionalKeys :
        LET A == config.arbitrator
            u == UpdateConfig(Ledger, config.admin, B, new_admin)
            s == Commit(Ledger, u)
        IN  /\ u.err = "Ok"
            /\ s.config.arbitrator = B
            /\ s.jobs = jobs /\ s.escrow = escrow /\ s.bal = bal
            \* resolve_dispute as ResolveDispute runs it: a call whose
            \* accounts are rejected ends there whatever the percentage is,
            \* the others go on to the handler
            /\ \A agent_token \in TokenAccts, requester_token \in TokenAccts :
                 LET a == ResolveDisputeAccounts(s, A, j, agent_token,
                                                 requester_token)
                 IN  IF a.err # "Ok"
                     THEN a.err = "UnauthorizedArbitrator" /\ Commit(s, a) = s
                     ELSE \A pct \in Percentages, frozen \in Frozens :
                            LET r == ResolveDisputeHandler(a.st, j, pct,
                                                           agent_token,
                                                           requester_token,
                                                           frozen)
                            IN  /\ r.err = "UnauthorizedArbitrator"
                                /\ Commit(s, r) = s
            /\ \A agent_token \in AccountsOf(jobs[j].agent, j),
                  requester_token \in AccountsOf(jobs[j].requester, j),
                  pct \in {p \in Percentages : p <= MAX_PERCENTAGE} :
                 LET r == ResolveDispute(s, B, j, pct, agent_token,
                                         requester_token, {})
                 IN  /\ r.err = "Ok"
                     /\ Commit(s, r).jobs[j].status = "Resolved"
                     /\ Commit(s, r).escrow[j].bal = 0

\* an update_config has changed the config while a job is in dispute
C24_Witness ==
  /\ last.op = "update_config"
  /\ last.err = "Ok"
  /\ last.dirty
  /\ config.exists
  /\ jobs["j1"].status = "Disputed"
  /\ escrow["j1"].bal = jobs["j1"].amount


\* rejection reasons: a short one, and one that no deliverable has room for
AllReasons == Reasons \cup {LongUrl}

\* C25: in every reachable state the stored deliverable of every job is at
\* most 500 bytes long: submit_deliverable by the job's agent fails with
\* DeliverableTooLong when url + " | " + notes exceeds 500 bytes, and
\* reject_work by the job's requester on an UnderReview job fails with
\* DeliverableTooLong, leaving the job UnderReview, when the old deliverable
\* + " | REJECTED: " + reason exceeds 500 bytes.
C25_DeliverableBounded ==
  \A j \in AllJobIds :
    /\ ByteLen(jobs[j].deliverable) <= MAX_DELIVERABLE_LEN
    /\ jobs[j].exists =>
         /\ \A url \in Urls, notes \in NotesSet :
              (jobs[j].agent \in Keys
               /\ ByteLen(url \o SEP \o notes) > MAX_DELIVERABLE_LEN) =>
                LET r == SubmitDeliverable(Ledger, jobs[j].agent, j, url,
                                           notes, now)
                IN  r.err = "DeliverableTooLong" /\ Commit(Ledger, r) = Ledger
         /\ jobs[j].status = "UnderReview" =>
              \A reason \in AllReasons :
                ByteLen(jobs[j].deliverable \o REJECTED \o reason)
                  > MAX_DELIVERABLE_LEN =>
                  LET r == RejectWork(Ledger, jobs[j].requester, j, reason)
                  IN  /\ r.err = "DeliverableTooLong"
                      /\ Commit(Ledger, r) = Ledger
                      /\ Commit(Ledger, r).jobs[j].status = "UnderReview"

\* the requester has called reject_work on a deliverable of exactly 500
\* bytes: the call has failed and the job is still under review
C25_Witness ==
  /\ last.op = "reject_work"
  /\ last.err = "DeliverableTooLong"
  /\ jobs["j1"].status = "UnderReview"
  /\ ByteLen(jobs["j1"].deliverable) = MAX_DELIVERABLE_LEN


\* the values of a rating and of a percentage (u8 in the program) that the
\* handlers refuse
BadRatings == {0, MAX_RATING + 1, U8_MAX}
BadPercentages == {MAX_PERCENTAGE + 1, U8_MAX}

\* C26: approve_and_pay with a rating outside [1,5] fails with InvalidRating
\* and resolve_dispute with agent_pct greater than 100 fails with
\* InvalidPercentage; in both cases no transfer is made and the job keeps its
\* status (UnderReview, respectively Disputed) and all its fields.
C26_BadRatingAndPercentageRefused ==
  \A j \in JobIds : jobs[j].exists =>
    /\ jobs[j].status = "UnderReview" =>
         \A rating \in BadRatings, frozen \in Frozens,
            agent_token \in AccountsOf(jobs[j].agent, j) :
           LET r == ApproveAndPay(Ledger, jobs[j].requester, j, rating,
                                  agent_token, frozen)
           IN  /\ r.err = "InvalidRating"
               /\ r.st = Ledger
               /\ Commit(Ledger, r) = Ledger
    /\ (jobs[j].status = "Disputed" /\ config.exists) =>
         \A pct \in BadPercentages, frozen \in Frozens,
            agent_token \in AccountsOf(jobs[j].agent, j),
            requester_token \in AccountsOf(jobs[j].requester, j) :
           LET r == ResolveDispute(Ledger, config.arbitrator, j, pct,
                                   agent_token, requester_token, frozen)
           IN  /\ r.err = "InvalidPercentage"
               /\ r.st = Ledger
               /\ Commit(Ledger, r) = Ledger

\* the arbitrator has called resolve_dispute with a percentage above 100:
\* the job is still Disputed with its funds in escrow
C26_Witness ==
  /\ last.op = "resolve_dispute"
  /\ last.err = "InvalidPercentage"
  /\ ~last.dirty
  /\ jobs["j1"].status = "Disputed"
  /\ jobs["j1"].disputed
  /\ escrow["j1"].bal = jobs["j1"].amount


\* create_job on job j in the current state fails on the existing account
\* and has written nothing
CreateJobRefused(j, requester, amount, description, deadline_days, requester_token, mint, frozen) ==
  LET r == CreateJob(Ledger, requester, j, amount, description,
                     deadline_days, requester_token, mint, frozen, now)
  IN  r.err = "AccountAlreadyInUse" /\ r.st = Ledger

\* C27: a job identifier is never reused: no step removes a job record, and
\* create_job with the job_id of a job that exists, in any status, fails,
\* moves no funds and leaves the existing job record unchanged (with every
\* combination of signer, funding account, mint and amount, and for every
\* signer's own account with every combination of the other arguments).
C27_JobIdNeverReused ==
  /\ [][\A j \in AllJobIds : jobs[j].exists => jobs'[j].exists]_vars
  /\ [](\A j \in JobIds : jobs[j].exists =>
          /\ \A requester \in Keys, requester_token \in TokenAccts,
                mint \in Mints, amount \in JobAmounts :
               CreateJobRefused(j, requester, amount, <<"d">>, 1,
                                requester_token, mint, {})
          /\ \A requester \in Keys, amount \in JobAmounts \cup PairAmounts,
                description \in Descriptions,
                deadline_days \in DeadlineDays, frozen \in Frozens :
               CreateJobRefused(j, requester, amount, description,
                                deadline_days, TokenOf(requester), "m1",
                                frozen))

\* create_job has been called with the job_id of a Completed job
C27_Witness ==
  /\ last.op = "create_job"
  /\ last.err = "AccountAlreadyInUse"
  /\ jobs["j1"].status = "Completed"
  /\ jobs["j1"].rating \in MIN_RATING..MAX_RATING
  /\ escrow["j1"].bal = 0


\* the values of the config account: none, or any admin and arbitrator
Configs ==
  {NoConfig} \cup {[exists |-> TRUE, admin |-> a, arbitrator |-> b] :
                     a \in Admins, b \in Arbitrators}

\* the config accounts to compare the current one with: none where one
\* exists, any where none exists
OtherConfigs == IF config.exists THEN {NoConfig} ELSE Configs \ {NoConfig}

\* C28: resolve_dispute cannot succeed before initialize has been called:
\* while no config record exists every resolve_dispute call by any caller
\* fails and a Disputed job stays Disputed with its funds in escrow, whereas
\* create_job, accept_job, submit_deliverable, approve_and_pay, reject_work
\* and cancel_job do not depend on the config: each call returns the same
\* result and writes the same whether or not a config account exists.
C28_OnlyResolveNeedsConfig ==
  /\ [](\A j \in JobIds : (~config.exists /\ jobs[j].exists) =>
          \A arbitrator \in Keys, agent_token \in TokenAccts,
             requester_token \in TokenAccts, pct \in Percentages,
             frozen \in Frozens :
            LET r == ResolveDispute(Ledger, arbitrator, j, pct, agent_token,
                                    requester_token, frozen)
            IN  r.err # "Ok" /\ Commit(Ledger, r) = Ledger)
  /\ [][\A j \in JobIds :
          (~config.exists /\ jobs[j].exists /\ jobs[j].status = "Disputed")
          => /\ jobs'[j] = jobs[j]
             /\ escrow'[j] = escrow[j]
             /\ escrow[j].bal = jobs[j].amount]_vars
  /\ [](\A j \in JobIds : \A c \in LifecycleCalls(j, TokenAccts) :
          LET r == JobCall(Ledger, c, now)
          IN  \A cfg \in OtherConfigs :
                LET q == JobCall([Ledger EXCEPT !.config = cfg], c, now)
                IN  /\ q.err = r.err
                    /\ q.st = [r.st EXCEPT !.config = cfg])

\* resolve_dispute has been called on a Disputed job while no config exists
C28_Witness ==
  /\ last.op = "resolve_dispute"
  /\ last.err = "AccountNotInitialized"
  /\ ~config.exists
  /\ jobs["j1"].status = "Disputed"
  /\ escrow["j1"].bal = jobs["j1"].amount

AsHardened(st, cfg) ==
  [st EXCEPT !.config = cfg,
             !.jobs = [j \in DOMAIN st.jobs |->
                         [st.jobs[j] EXCEPT !.mint = st.escrow[j].mint]]]

\* the users' token accounts of the mint of job j's escrow
SameMintAccts(j) == {t \in TokenAccts : TokenMint(t) = escrow[j].mint}

\* C30: in the early variant, whenever a job is Disputed, resolve_dispute
\* signed by any key, with any percentage from 0 to 100 and with any users'
\* token accounts (of the escrow's mint, whoever owns them) as agent_token and
\* requester_token, succeeds, marks the job Resolved and moves the whole
\* escrowed amount into the two accounts named; the hardened resolve_dispute
\* on the same ledger succeeds only for the configured arbitrator paying
\* accounts owned by the job's agent and requester.
C30_EarlyResolveOpenToAnySigner ==
  \A j \in JobIds : (jobs[j].exists /\ jobs[j].status = "Disputed") =>
    /\ \A arbitrator \in Keys, pct \in 0..MAX_PERCENTAGE :
         \A agent_token \in SameMintAccts(j),
            requester_token \in SameMintAccts(j) :
           LET r == EarlyResolveDispute(Ledger, arbitrator, j, pct,
                                        EscrowTokenOf(j), agent_token,
                                        requester_token, {})
               a == (jobs[j].amount * pct) \div 100
           IN  /\ r.err = "Ok"
               /\ r.st.jobs[j].status = "Resolved"
               /\ r.st.escrow[j].bal = 0
               /\ r.st.bal =
                    [t \in TokenAccts |->
                       bal[t] + (IF t = agent_token THEN a ELSE 0)
                              + (IF t = requester_token
                                 THEN jobs[j].amount - a ELSE 0)]
    /\ \A cfg \in Configs \ {NoConfig}, arbitrator \in Keys,
          pct \in Percentages :
         \A agent_token \in TokenAccts, requester_token \in TokenAccts :
           LET h == ResolveDispute(AsHardened(Ledger, cfg), arbitrator, j,
                                   pct, agent_token, requester_token, {})
           IN  h.err = "Ok" =>
                 /\ arbitrator = cfg.arbitrator
                 /\ TokenOwner(agent_token) = jobs[j].agent
                 /\ TokenOwner(requester_token) = jobs[j].requester

\* a dispute resolved with the whole escrowed amount in the account of k3,
\* who is neither the requester nor the agent of the job
C30_Witness ==
  \E j \in JobIds :
    /\ last.op = "resolve_dispute" /\ last.err = "Ok"
    /\ jobs[j].status = "Resolved"
    /\ jobs[j].amount > 0
    /\ jobs[j].requester # "k3" /\ jobs[j].agent # "k3"
    /\ bal["t3"] = jobs[j].amount

\* C31: in every reachable state a job has no agent exactly when its status
\* is Open or Cancelled; hence no accept_job call, by any signer, is refused
\* with JobAlreadyTaken, and a call on a job that has an agent is refused by
\* the guard on the status with JobNotOpen.
C31_AgentUnsetIffOpenOrCancelled ==
  \A j \in DOMAIN jobs : jobs[j].exists =>
    /\ (jobs[j].agent = DefaultKey)
         <=> (jobs[j].status \in {"Open", "Cancelled"})
    /\ \A agent \in Keys :
         LET r == AcceptJob(Ledger, agent, j)
         IN  /\ r.err # "JobAlreadyTaken"
             /\ (jobs[j].agent # DefaultKey) => r.err = "JobNotOpen"
             /\ (r.err = "Ok") <=> (jobs[j].status = "Open")

\* accept_job was just refused on a job that has an agent and is past
\* InProgress
C31_Witness ==
  \E j \in JobIds :
    /\ last.op = "accept_job" /\ last.err = "JobNotOpen"
    /\ jobs[j].agent \in Keys
    /\ jobs[j].status \in {"UnderReview", "Disputed", "Completed", "Resolved"}

\* the job fields the variants are compared on, and the token balances
JobView(st) ==
  [jobs |-> [j \in DOMAIN st.jobs |->
               [status |-> st.jobs[j].status, agent |-> st.jobs[j].agent,
                amount |-> st.jobs[j].amount,
                deliverable |-> st.jobs[j].deliverable,
                disputed |-> st.jobs[j].disputed,
                rating |-> st.jobs[j].rating]],
   escrow |-> st.escrow, bal |-> st.bal]

\* the record of job j fits the account the early variant allocates for it
FitsEarlyAccount(st, j) == EarlyExit(st, j).err = "Ok"

\* C32 as stated: every call the hardened variant accepts is accepted by the
\* early variant on the same ledger, with the same job record and the same
\* balances afterwards.
C32_HardenedRefinesEarly ==
  \A j \in JobIds : \A c \in RefineCalls(j) :
    LET h == HardenedCall(Ledger, c, now)
        e == EarlyCall(AsEarly(Ledger), c, now)
    IN  h.err = "Ok" =>
          /\ e.err = "Ok"
          /\ e.st = AsEarly(h.st)
          /\ JobView(e.st) = JobView(h.st)

\* C32: every call the hardened variant accepts whose job record still fits
\* the 623 bytes of the early variant's job account is accepted by the early
\* variant on the same ledger, leaving the same job record (status, agent,
\* amount, deliverable, disputed, rating and the other fields) and the same
\* balances; a call whose record no longer fits is accepted by the hardened
\* variant and fails in the early one when the account is written back.
C32_HardenedRefinesEarlyWhileRecordFits ==
  \A j \in JobIds : \A c \in RefineCalls(j) :
    LET h == HardenedCall(Ledger, c, now)
        e == EarlyCall(AsEarly(Ledger), c, now)
    IN  h.err = "Ok" =>
          IF FitsEarlyAccount(h.st, j)
          THEN /\ e.err = "Ok"
               /\ e.st = AsEarly(h.st)
               /\ JobView(e.st) = JobView(h.st)
          ELSE e.err = "AccountDidNotSerialize"

\* a job went through submit, reject and resolve in the hardened variant with
\* a record that fits the early account at every step
C32_Witness ==
  \E j \in JobIds :
    /\ last.op = "resolve_dispute" /\ last.err = "Ok"
    /\ jobs[j].status = "Resolved"
    /\ jobs[j].amount > 0
    /\ FitsEarlyAccount(Ledger, j)

=============================================================================
